---- MODULE Spec2Model ----
(***************************************************************************)
(* Graph traversal retrieval (graph-retriever): the traversal engine, the  *)
(* node tracker, the Eager and Scored strategies, the metadata edge        *)
(* extractor and the in-memory adapter with the default Adapter.adjacent.  *)
(*                                                                         *)
(* Values:                                                                 *)
(*  - an embedding is a tuple of integers whose norm is an integer;        *)
(*  - a similarity score is the exact fraction [n |-> num, d |-> den],     *)
(*    den > 0, compared by cross multiplication;                           *)
(*  - a metadata value is [arr |-> BOOLEAN, vals |-> tuple of scalars]: a  *)
(*    scalar v is [arr |-> FALSE, vals |-> <<v>>];                         *)
(*  - an optional number (maxDepth, perIterationLimit, storeKwargs.k,      *)
(*    extraMetadata._score) is a tuple: <<>> is undefined, <<v>> is v;     *)
(*  - an Edge object is a record; JavaScript's Set<Edge> and Map<Edge, _>  *)
(*    compare objects by reference, so the record carries the object's     *)
(*    identity (run, owner, dir, idx) next to its payload.                 *)
(***************************************************************************)
EXTENDS Integers, Sequences, FiniteSets, TLC

VARIABLES
  embeddingFn,        \* InMemoryBase.embedding: which embedding function the adapter holds
  store,              \* InMemoryBase.store: the contents, in insertion order
  opts,               \* options of traverse(): query, edges, metadataFilter, initialRootIds, storeKwargs
  strategy,           \* the Strategy object: configuration, queryEmbedding, Scored.nodes
  used,               \* Traversal.used
  visitedEdges,       \* Traversal.visitedEdges
  edgeDepths,         \* Traversal.edgeDepths
  discoveredNodeIds,  \* Traversal.discoveredNodeIds
  nodeTracker,        \* Traversal.nodeTracker: visitedNodeIds, toTraverse, selected
  pc,                 \* where the first traverse() activation stands
  calls,              \* every adapter call this instance issued, with its result once settled
  output,             \* what traverse() returned
  error,              \* the error traverse() failed with ("" if none)
  reuseErrors,        \* number of re-invocations rejected with 'can only be used once'
  run,                \* how many traversals have been started with this strategy object
  firstOutput,        \* ids returned by the first traversal
  handed,             \* the node ids each strategy.iteration call was handed, in call order
  merge               \* one amerge() call: its inputs, pumps, queue, pendingCount and what it yielded

vars == <<embeddingFn, store, opts, strategy, used, visitedEdges, edgeDepths, discoveredNodeIds,
          nodeTracker, pc, calls, output, error,
          reuseErrors, run, firstOutput, handed, merge>>

\* ---------------------------------------------------------------- bounds
MaxContents == 3
MaxDocs == 3
MaxIds == 2
MaxSpecs == 2
MaxItems == 2
MaxNodes == 2
MaxSelected == 2
MaxSelectK == 2
MaxStartK == 2
MaxRows == 2
MaxReuse == 1
MaxRuns == 2

\* ---------------------------------------------------------------- sequences
\* No amerge() call is in progress.
NoMerge == [pc |-> "none"]

Range(s) == {s[i] : i \in 1..Len(s)}

Min2(a, b) == IF a < b THEN a ELSE b

Max2(a, b) == IF a > b THEN a ELSE b

Take(s, k) == SubSeq(s, 1, Min2(Max2(k, 0), Len(s)))

RECURSIVE Flatten(_)
Flatten(ss) == IF ss = <<>> THEN <<>> ELSE Head(ss) \o Flatten(Tail(ss))

Contains(s, x) == \E i \in 1..Len(s) : s[i] = x

\* Map-like de-duplication by key: a key keeps the position of its first
\* insertion and the value of its last one (Map.set on an existing key).
\* keys[i] is the key of s[i].
LastWithKey(s, keys, k) ==
  s[CHOOSE i \in 1..Len(s) : keys[i] = k /\ \A j \in (i+1)..Len(s) : keys[j] # k]

MapByKey(s, keys) ==
  LET firsts == SelectSeq([i \in 1..Len(s) |-> i],
                          LAMBDA i : \A j \in 1..(i-1) : keys[j] # keys[i])
  IN [p \in 1..Len(firsts) |-> LastWithKey(s, keys, keys[firsts[p]])]

Ids(s) == [i \in 1..Len(s) |-> s[i].id]

ScoresOf(s) == [i \in 1..Len(s) |-> s[i].score]

\* ---------------------------------------------------------------- fractions
Frac(n, d) == [n |-> n, d |-> d]

FracLess(a, b) == a.n * b.d < b.n * a.d

FracEq(a, b) == a.n * b.d = b.n * a.d

\* Array.prototype.sort with comparator (a, b) => key(b) - key(a): a stable
\* sort, descending by key.
RECURSIVE InsertDesc(_, _)
InsertDesc(sorted, x) ==
  IF sorted = <<>> THEN <<x>>
  ELSE IF FracLess(Head(sorted).k, x.k)
       THEN <<x>> \o sorted
       ELSE <<Head(sorted)>> \o InsertDesc(Tail(sorted), x)

RECURSIVE SortDescFrom(_, _)
SortDescFrom(acc, rest) ==
  IF rest = <<>> THEN acc
  ELSE SortDescFrom(InsertDesc(acc, Head(rest)), Tail(rest))

\* keys[i] is the sort key of s[i].
SortDesc(s, keys) ==
  LET keyed == [i \in 1..Len(s) |-> [k |-> keys[i], v |-> s[i]]]
      sorted == SortDescFrom(<<>>, keyed)
  IN [i \in 1..Len(s) |-> sorted[i].v]

\* ---------------------------------------------------------------- utils/math.ts
RECURSIVE dotProduct(_, _)
dotProduct(a, b) ==
  IF a = <<>> THEN 0 ELSE Head(a) * Head(b) + dotProduct(Tail(a), Tail(b))

\* Math.sqrt of the sum of squares; the embeddings used have integer norms.
magnitude(v) ==
  LET s == dotProduct(v, v) IN CHOOSE r \in 0..s : r * r = s

\* One entry of the similarity matrix.
cosine(x, y) ==
  IF magnitude(x) = 0 \/ magnitude(y) = 0 THEN Frac(0, 1)
  ELSE Frac(dotProduct(x, y), magnitude(x) * magnitude(y))

\* cosineSimilarity(X, Y): [ok |-> FALSE] when it throws, else the matrix.
\* It throws the column-count error when the first rows differ in length,
\* and dotProduct's error when it reaches two rows of non-zero magnitude
\* that differ in length; a row pair with a zero magnitude yields 0 without
\* the lengths being compared.
cosineSimilarity(X, Y) ==
  IF Len(X) = 0 \/ Len(Y) = 0 THEN [ok |-> TRUE, rows |-> <<>>, error |-> ""]
  ELSE IF Len(X[1]) # Len(Y[1])
       THEN [ok |-> FALSE, rows |-> <<>>,
             error |-> "Number of columns in X and Y must be the same"]
  ELSE IF \E i \in 1..Len(X), j \in 1..Len(Y) :
            magnitude(X[i]) # 0 /\ magnitude(Y[j]) # 0 /\ Len(X[i]) # Len(Y[j])
       THEN [ok |-> FALSE, rows |-> <<>>, error |-> "Vectors must have the same length"]
  ELSE [ok |-> TRUE,
        rows |-> [i \in 1..Len(X) |-> [j \in 1..Len(Y) |-> cosine(X[i], Y[j])]],
        error |-> ""]

\* cosineSimilarityTopK([x], Y, topK): the y-indices of the best topK scores.
cosineSimilarityTopK(x, Y, k) ==
  IF Len(Y) = 0 THEN <<>>
  ELSE LET row == cosineSimilarity(<<x>>, Y).rows[1]
           flat == SelectSeq([j \in 1..Len(Y) |-> [score |-> row[j], yIdx |-> j]],
                             LAMBDA r : ~FracLess(r.score, Frac(-1, 1)))
           byScore == SortDesc(flat, ScoresOf(flat))
       IN Take(byScore, Min2(k, Len(byScore)))

\* ---------------------------------------------------------------- content.ts
Scalar(v) == [arr |-> FALSE, vals |-> <<v>>]

Array(vs) == [arr |-> TRUE, vals |-> vs]

\* A nested mapping: fields is a function from keys to metadata values.
Object(fields) == [arr |-> FALSE, vals |-> <<>>, obj |-> fields]

IsObject(value) == "obj" \in DOMAIN value

createContent(id, embedding, metadata) ==
  [id |-> id, embedding |-> embedding, metadata |-> metadata]

\* The documents of the store, in insertion order.
Documents ==
  << createContent("d1", <<1, 0>>,
       [country |-> Scalar("FR"), category |-> Scalar("geo")]),
     createContent("d2", <<4, 3>>,
       [country |-> Scalar("FR"), category |-> Scalar("landmark"),
        mentions |-> Array(<<"d3">>)]),
     createContent("d3", <<3, 4>>,
       [country |-> Array(<<"FR", "UK">>), category |-> Scalar("culture")]),
     createContent("d4", <<0, 1>>,
       [country |-> Scalar("UK"), category |-> Scalar("geo")]) >>

\* The documents of the end-to-end scenarios, embedded by text length.
TextLength ==
  [Paris |-> 5, Eiffel |-> 6, Cuisine |-> 7, London |-> 6, city |-> 4]

ScenarioDocuments ==
  << createContent("d1", <<TextLength["Paris"], 0, 0>>,
       [category |-> Scalar("geo"), country |-> Scalar("FR")]),
     createContent("d2", <<TextLength["Eiffel"], 0, 0>>,
       [category |-> Scalar("landmark"), country |-> Scalar("FR")]),
     createContent("d3", <<TextLength["Cuisine"], 0, 0>>,
       [category |-> Scalar("culture"), country |-> Scalar("FR")]),
     createContent("d4", <<TextLength["London"], 0, 0>>,
       [category |-> Scalar("geo"), country |-> Scalar("UK")]) >>

\* The embedding function handed to the in-memory adapter: "axis" puts
\* "Paris" on the first axis and any other text on the second, "length" is
\* E(t) = [len(t), 0, 0].
Embed(query) ==
  IF embeddingFn = "length" THEN <<TextLength[query], 0, 0>>
  ELSE IF query = "Paris" THEN <<1, 0>> ELSE <<0, 1>>

Queries == {"Paris", "London"}

\* ---------------------------------------------------------------- edges/metadata.ts
ID_MAGIC_STRING == "$id"

\* key.split('.') for the dotted keys in use; any other key is one part.
KeyParts ==
  ("address.city" :> <<"address", "city">>) @@ ("tags.0" :> <<"tags", "0">>)

split(key) == IF key \in DOMAIN KeyParts THEN KeyParts[key] ELSE <<key>>

\* The array position a key part names, if it names one.
ArrayIndex == ("0" :> 1) @@ ("1" :> 2)

\* The loop of nestedGet: a key part is looked up in a mapping by key and
\* in an array by index (keyPart in value); anything else ends the walk
\* with undefined.
RECURSIVE walk(_, _)
walk(value, keyParts) ==
  IF keyParts = <<>> THEN <<value>>
  ELSE LET keyPart == Head(keyParts)
       IN IF IsObject(value)
          THEN IF keyPart \in DOMAIN value.obj
               THEN walk(value.obj[keyPart], Tail(keyParts)) ELSE <<>>
          ELSE IF value.arr /\ keyPart \in DOMAIN ArrayIndex
                  /\ ArrayIndex[keyPart] <= Len(value.vals)
               THEN walk(Scalar(value.vals[ArrayIndex[keyPart]]), Tail(keyParts))
               ELSE <<>>

\* nestedGet: <<>> when the lookup ends in undefined, else <<value>>.
nestedGet(metadata, key) == walk(Object(metadata), split(key))

\* The payloads one spec contributes, in emission order.
SpecEdgesNamedBySource(spec, id, metadata, incoming) ==
  LET targetKey == IF incoming THEN spec[1] ELSE spec[2]
      sourceKey == IF incoming THEN spec[2] ELSE spec[1]
      mkEdge(v) == IF targetKey = ID_MAGIC_STRING
                   THEN [type |-> "id", field |-> "", value |-> v]
                   ELSE [type |-> "metadata", field |-> targetKey, value |-> v]
  IN IF sourceKey = ID_MAGIC_STRING THEN <<mkEdge(id)>>
     ELSE LET got == nestedGet(metadata, sourceKey)
          IN IF got = <<>> THEN <<>>
             ELSE [i \in 1..Len(got[1].vals) |-> mkEdge(got[1].vals[i])]

SpecEdges(spec, id, metadata, incoming) ==
  LET targetKey == spec[2]
      sourceKey == IF incoming THEN spec[2] ELSE spec[1]
      mkEdge(v) == IF targetKey = ID_MAGIC_STRING
                   THEN [type |-> "id", field |-> "", value |-> v]
                   ELSE [type |-> "metadata", field |-> targetKey, value |-> v]
  IN IF sourceKey = ID_MAGIC_STRING THEN <<mkEdge(id)>>
     ELSE LET got == nestedGet(metadata, sourceKey)
          IN IF got = <<>> THEN <<>>
             ELSE [i \in 1..Len(got[1].vals) |-> mkEdge(got[1].vals[i])]

\* edgesFromDict: every emitted Edge is a new object, so the Set<Edge> keeps
\* all of them; tag is the identity of the extraction that created them.
edgesFromDict(specs, id, metadata, incoming, tag) ==
  LET payloads == Flatten([s \in 1..Len(specs) |-> SpecEdges(specs[s], id, metadata, incoming)])
  IN [i \in 1..Len(payloads) |->
        [type |-> payloads[i].type, field |-> payloads[i].field, value |-> payloads[i].value,
         run |-> tag, owner |-> id, dir |-> IF incoming THEN "in" ELSE "out", idx |-> i]]

\* MetadataEdgeFunction.call
edgeFunction(specs, content, tag) ==
  [incoming |-> edgesFromDict(specs, content.id, content.metadata, TRUE, tag),
   outgoing |-> edgesFromDict(specs, content.id, content.metadata, FALSE, tag)]

\* Structural equality of two edges (Edge.equals: same toString()).
EdgeEquals(e, f) == e.type = f.type /\ e.field = f.field /\ e.value = f.value

\* ---------------------------------------------------------------- adapters/inMemory.ts
\* InMemory.valueMatches
valueMatchesEqualOnly(filterValue, got) ==
  /\ got # <<>>
  /\ ~IsObject(got[1])
  /\ ~got[1].arr
  /\ got[1].vals[1] = filterValue

valueMatches(filterValue, got) ==
  /\ got # <<>>
  /\ ~IsObject(got[1])
  /\ \/ (~got[1].arr /\ got[1].vals[1] = filterValue)
     \/ (got[1].arr /\ Contains(got[1].vals, filterValue))

\* InMemoryBase.matches; a filter is a function from keys to scalars, the
\* empty function when no filter is given.
matches(filter, content) ==
  \A key \in DOMAIN filter : valueMatches(filter[key], nestedGet(content.metadata, key))

matchingContent(st, filter) == SelectSeq(st, LAMBDA c : matches(filter, c))

\* InMemoryBase.search
searchUnranked(st, embedding, k, filter) == Take(matchingContent(st, filter), k)

search(st, embedding, k, filter) ==
  LET candidates == matchingContent(st, filter)
  IN IF Len(candidates) = 0 THEN <<>>
     ELSE LET similarity == cosineSimilarity(<<embedding>>,
                               [i \in 1..Len(candidates) |-> candidates[i].embedding]).rows[1]
              indexed == [i \in 1..Len(candidates) |-> [score |-> similarity[i], index |-> i]]
              sorted == SortDesc(indexed, ScoresOf(indexed))
              topKIndices == Take(sorted, k)
          IN [i \in 1..Len(topKIndices) |-> candidates[topKIndices[i].index]]

\* InMemoryBase.get
get(st, ids, filter) ==
  LET found == SelectSeq(ids, LAMBDA id : \E i \in 1..Len(st) : st[i].id = id)
      contents == [i \in 1..Len(found) |->
                     st[CHOOSE j \in 1..Len(st) : st[j].id = found[i]]]
  IN SelectSeq(contents, LAMBDA c : matches(filter, c))

\* ---------------------------------------------------------------- utils/topK.ts
topKReversed(contents, embedding, k) ==
  LET unscored == MapByKey(contents, Ids(contents))
      result == cosineSimilarityTopK(embedding,
                   [i \in 1..Len(unscored) |-> unscored[i].embedding], k)
      scored == [i \in 1..Len(result) |->
                   [content |-> unscored[result[i].yIdx], score |-> result[i].score]]
      results == MapByKey(scored, [i \in 1..Len(scored) |-> scored[i].content.id])
      sorted == SortDesc(results, ScoresOf(results))
  IN [i \in 1..Len(sorted) |-> sorted[Len(sorted) + 1 - i].content]

topK(contents, embedding, k) ==
  LET unscored == MapByKey(contents, Ids(contents))
      result == cosineSimilarityTopK(embedding,
                   [i \in 1..Len(unscored) |-> unscored[i].embedding], k)
      scored == [i \in 1..Len(result) |->
                   [content |-> unscored[result[i].yIdx], score |-> result[i].score]]
      results == MapByKey(scored, [i \in 1..Len(scored) |-> scored[i].content.id])
      sorted == SortDesc(results, ScoresOf(results))
  IN [i \in 1..Len(sorted) |-> sorted[i].content]

\* ---------------------------------------------------------------- adapters/base.ts
\* Adapter.metadataFilter: { ...baseFilter, ...edgeFilter }
metadataFilter(edge, baseFilter) ==
  [key \in DOMAIN baseFilter \cup {edge.field} |->
     IF key = edge.field THEN edge.value ELSE baseFilter[key]]

\* Adapter.adjacent
adjacentIdEdgesOnly(st, edges, queryEmbedding, k, filter) ==
  LET idEdges == SelectSeq(edges, LAMBDA e : e.type = "id")
      ids == [i \in 1..Len(idEdges) |-> idEdges[i].value]
      idResults == IF Len(ids) > 0 THEN get(st, ids, filter) ELSE <<>>
  IN topK(idResults, queryEmbedding, k)

adjacent(st, edges, queryEmbedding, k, filter) ==
  LET perEdge == [i \in 1..Len(edges) |->
                    IF edges[i].type = "metadata"
                    THEN search(st, queryEmbedding, k, metadataFilter(edges[i], filter))
                    ELSE <<>>]
      idEdges == SelectSeq(edges, LAMBDA e : e.type = "id")
      ids == [i \in 1..Len(idEdges) |-> idEdges[i].value]
      idResults == IF Len(ids) > 0 THEN get(st, ids, filter) ELSE <<>>
  IN topK(Flatten(perEdge) \o idResults, queryEmbedding, k)

\* ---------------------------------------------------------------- types.ts
createNode(id, depth, similarityScore, edges) ==
  [id |-> id, depth |-> depth, similarityScore |-> similarityScore,
   incomingEdges |-> edges.incoming, outgoingEdges |-> edges.outgoing,
   extraMetadata |-> [_depth |-> <<>>, _similarity_score |-> <<>>, _score |-> <<>>]]

\* ---------------------------------------------------------------- strategies/base.ts
\* A tracker is [selectK, maxDepth, visitedNodeIds, toTraverse, selected];
\* queuedLog is history: the (id, depth) of every toTraverse.set the tracker
\* has made, in order.
NodeTracker(selectK, maxDepth) ==
  [selectK |-> selectK, maxDepth |-> maxDepth, visitedNodeIds |-> {},
   toTraverse |-> <<>>, selected |-> <<>>, queuedLog |-> <<>>]

numRemaining(tracker) == Max2(tracker.selectK - Len(tracker.selected), 0)

Stamp(node) ==
  [node EXCEPT !.extraMetadata._depth = <<node.depth>>,
               !.extraMetadata._similarity_score = <<node.similarityScore>>]

\* NodeTracker.select
select(tracker, nodes) ==
  [tracker EXCEPT !.selected = @ \o [i \in 1..Len(nodes) |-> Stamp(nodes[i])]]

\* The condition under which NodeTracker.traverse queues a node.
MayTraverseAnyDepth(tracker, node) == node.id \notin tracker.visitedNodeIds

MayTraverse(tracker, node) ==
  /\ node.id \notin tracker.visitedNodeIds
  /\ (tracker.maxDepth = <<>> \/ node.depth < tracker.maxDepth[1])

\* NodeTracker.traverse: the tracker afterwards and the number queued.
traverseNotMarkingVisited(tracker, nodes) ==
  LET allowed == SelectSeq(nodes, LAMBDA n : MayTraverse(tracker, n))
      newNodes == MapByKey(allowed, Ids(allowed))
      replaced == [i \in 1..Len(tracker.toTraverse) |->
                     IF \E j \in 1..Len(newNodes) : newNodes[j].id = tracker.toTraverse[i].id
                     THEN newNodes[CHOOSE j \in 1..Len(newNodes) :
                                     newNodes[j].id = tracker.toTraverse[i].id]
                     ELSE tracker.toTraverse[i]]
      added == SelectSeq(newNodes,
                         LAMBDA n : \A i \in 1..Len(tracker.toTraverse) :
                                       tracker.toTraverse[i].id # n.id)
  IN [tracker |-> [tracker EXCEPT !.toTraverse = replaced \o added,
                                  !.queuedLog = @ \o [i \in 1..Len(newNodes) |->
                                     [id |-> newNodes[i].id, depth |-> newNodes[i].depth]]],
      count |-> Len(newNodes)]

traverse(tracker, nodes) ==
  LET allowed == SelectSeq(nodes, LAMBDA n : MayTraverse(tracker, n))
      newNodes == MapByKey(allowed, Ids(allowed))
      replaced == [i \in 1..Len(tracker.toTraverse) |->
                     IF \E j \in 1..Len(newNodes) : newNodes[j].id = tracker.toTraverse[i].id
                     THEN newNodes[CHOOSE j \in 1..Len(newNodes) :
                                     newNodes[j].id = tracker.toTraverse[i].id]
                     ELSE tracker.toTraverse[i]]
      added == SelectSeq(newNodes,
                         LAMBDA n : \A i \in 1..Len(tracker.toTraverse) :
                                       tracker.toTraverse[i].id # n.id)
  IN [tracker |-> [tracker EXCEPT !.toTraverse = replaced \o added,
                                  !.visitedNodeIds = @ \cup Range(Ids(newNodes)),
                                  !.queuedLog = @ \o [i \in 1..Len(newNodes) |->
                                     [id |-> newNodes[i].id, depth |-> newNodes[i].depth]]],
      count |-> Len(newNodes)]

\* NodeTracker.selectAndTraverse
selectAndTraverse(tracker, nodes) ==
  traverse(select(tracker, nodes), [i \in 1..Len(nodes) |-> Stamp(nodes[i])])

\* NodeTracker.shouldStopTraversal
shouldStopOnEmptyOnly(tracker) == Len(tracker.toTraverse) = 0

shouldStopTraversal(tracker) ==
  numRemaining(tracker) = 0 \/ Len(tracker.toTraverse) = 0

\* Strategy.finalizeNodes
finalizeNodesUnsliced(selectK, nodes) == nodes

finalizeNodes(selectK, nodes) == Take(nodes, selectK)

\* Strategy.build(baseStrategy, options): the base strategy object itself,
\* updated; an option is <<>> when not given.  Of the options that
\* Object.assign copies as they are, startK is the one drawn here.
buildIgnoringK(baseStrategy, options) ==
  LET withSelectK == IF options.selectK # <<>>
                     THEN [baseStrategy EXCEPT !.selectK = options.selectK[1],
                                               !.k = options.selectK[1]]
                     ELSE baseStrategy
  IN IF options.startK # <<>> THEN [withSelectK EXCEPT !.startK = options.startK[1]]
     ELSE withSelectK

build(baseStrategy, options) ==
  LET withK == IF options.k # <<>>
               THEN [baseStrategy EXCEPT !.selectK = options.k[1], !.k = options.k[1]]
               ELSE baseStrategy
      withSelectK == IF options.selectK # <<>>
                     THEN [withK EXCEPT !.selectK = options.selectK[1],
                                        !.k = options.selectK[1]]
                     ELSE withK
  IN IF options.startK # <<>> THEN [withSelectK EXCEPT !.startK = options.startK[1]]
     ELSE withSelectK

\* ---------------------------------------------------------------- strategies/eager.ts
EagerIteration(nodes, tracker) == selectAndTraverse(tracker, nodes).tracker

\* ---------------------------------------------------------------- strategies/scored.ts
\* The scorers handed to Scored.
Scorers == {"similarity", "negDepth"}

scorer(name, node) ==
  IF name = "similarity" THEN node.similarityScore ELSE Frac(0 - node.depth, 1)

\* ScoredNode.isLessThan
isLessThan(this, other) == FracLess(other.score, this.score)

Swap(items, i, j) == [items EXCEPT ![i] = items[j], ![j] = items[i]]

\* MinHeap.bubbleUp; positions are the code's indices plus one.
RECURSIVE bubbleUp(_, _)
bubbleUp(items, index) ==
  IF index <= 1 THEN items
  ELSE LET parentIndex == index \div 2
       IN IF ~isLessThan(items[index], items[parentIndex]) THEN items
          ELSE bubbleUp(Swap(items, index, parentIndex), parentIndex)

\* MinHeap.bubbleDown
RECURSIVE bubbleDown(_, _)
bubbleDown(items, index) ==
  LET leftChild == 2 * index
      rightChild == 2 * index + 1
      s1 == IF leftChild <= Len(items) /\ isLessThan(items[leftChild], items[index])
            THEN leftChild ELSE index
      smallest == IF rightChild <= Len(items) /\ isLessThan(items[rightChild], items[s1])
                  THEN rightChild ELSE s1
  IN IF smallest = index THEN items
     ELSE bubbleDown(Swap(items, index, smallest), smallest)

\* MinHeap.push
HeapPush(items, item) == bubbleUp(Append(items, item), Len(items) + 1)

RECURSIVE HeapPushAll(_, _)
HeapPushAll(items, new) ==
  IF new = <<>> THEN items ELSE HeapPushAll(HeapPush(items, Head(new)), Tail(new))

\* MinHeap.pop on a non-empty heap: the heap afterwards.
HeapPop(items) ==
  IF Len(items) = 1 THEN <<>>
  ELSE bubbleDown([SubSeq(items, 1, Len(items) - 1) EXCEPT ![1] = items[Len(items)]], 1)

\* The limit Scored.iteration starts with.
IterationLimit(tracker, perIterationLimit) ==
  IF perIterationLimit # <<>> /\ perIterationLimit[1] # 0
  THEN Min2(numRemaining(tracker), perIterationLimit[1])
  ELSE numRemaining(tracker)

\* The while loop of Scored.iteration.
RECURSIVE PopLoop(_, _, _)
PopLoop(limit, heap, tracker) ==
  IF ~(limit > 0 /\ Len(heap) > 0) THEN [heap |-> heap, tracker |-> tracker]
  ELSE LET highest == heap[1]
           node == [highest.node EXCEPT !.extraMetadata._score = <<highest.score>>]
           r == selectAndTraverse(tracker, <<node>>)
       IN PopLoop(limit - r.count, HeapPop(heap), r.tracker)

\* Scored.iteration: the heap and the tracker afterwards.
ScoredIteration(strat, nodes, tracker) ==
  LET pushed == HeapPushAll(strat.nodes,
                   [i \in 1..Len(nodes) |->
                      [score |-> scorer(strat.scorer, nodes[i]), node |-> nodes[i]]])
  IN PopLoop(IterationLimit(tracker, strat.perIterationLimit), pushed, tracker)

\* Scored.finalizeNodes
ScoredFinalizeNodes(selectK, nodes) ==
  LET scoreOr0(n) == IF n.extraMetadata._score = <<>> THEN Frac(0, 1)
                     ELSE n.extraMetadata._score[1]
  IN finalizeNodes(selectK, SortDesc(nodes, [i \in 1..Len(nodes) |-> scoreOr0(nodes[i])]))

\* strategy.iteration({nodes, tracker}) for the strategy at hand.
iteration(strat, nodes, tracker) ==
  IF strat.kind = "Eager"
  THEN [heap |-> strat.nodes, tracker |-> EagerIteration(nodes, tracker)]
  ELSE ScoredIteration(strat, nodes, tracker)

StrategyFinalize(strat, nodes) ==
  IF strat.kind = "Eager" THEN finalizeNodes(strat.selectK, nodes)
  ELSE ScoredFinalizeNodes(strat.selectK, nodes)

\* ---------------------------------------------------------------- traversal.ts
ContentById(st, id) == st[CHOOSE i \in 1..Len(st) : st[i].id = id]

Contents(st, ids) == [i \in 1..Len(ids) |-> ContentById(st, ids[i])]

\* The contents contentsToNewNodes turns into nodes: not yet discovered,
\* one per id.
NewContentsRediscovered(contents, discovered) == MapByKey(contents, Ids(contents))

NewContents(contents, discovered) ==
  LET unseen == SelectSeq(contents, LAMBDA c : c.id \notin discovered)
  IN MapByKey(unseen, Ids(unseen))

\* Math.min(...incoming edges' recorded depths, 0)
RECURSIVE MinOf(_, _)
MinOf(ds, m) == IF ds = <<>> THEN m ELSE MinOf(Tail(ds), Min2(Head(ds), m))

computeDepth(incoming, depths) ==
  LET known == SelectSeq(incoming, LAMBDA e : e \in DOMAIN depths)
  IN MinOf([i \in 1..Len(known) |-> depths[known[i]]], 0)

\* Traversal.contentsToNewNodes; depth is <<0>> for the seeds and <<>> later.
contentsToNewNodes(contents, depth, specs, queryEmbedding, discovered, depths, tag) ==
  LET contentArray == NewContents(contents, discovered)
  IN IF Len(contentArray) = 0 THEN [ok |-> TRUE, nodes |-> <<>>, discovered |-> discovered]
     ELSE LET scores == cosineSimilarity(<<queryEmbedding>>,
                           [i \in 1..Len(contentArray) |-> contentArray[i].embedding])
          IN IF ~scores.ok THEN [ok |-> FALSE, nodes |-> <<>>, discovered |-> discovered]
             ELSE [ok |-> TRUE,
                   nodes |-> [i \in 1..Len(contentArray) |->
                      LET edges == edgeFunction(specs, contentArray[i], tag)
                      IN createNode(contentArray[i].id,
                                    IF depth # <<>> THEN depth[1]
                                    ELSE computeDepth(edges.incoming, depths),
                                    scores.rows[1][i], edges)],
                   discovered |-> discovered \cup {contentArray[i].id : i \in 1..Len(contentArray)}]

\* Traversal.selectNextEdges: the edges to expand, with visitedEdges and
\* edgeDepths afterwards.
selectNextEdges(nodes, visited, depths) ==
  LET all == Flatten([i \in 1..Len(nodes) |->
                        [j \in 1..Len(nodes[i].outgoingEdges) |->
                           [edge |-> nodes[i].outgoingEdges[j], depth |-> nodes[i].depth + 1]]])
      unvisited == SelectSeq(all, LAMBDA x : x.edge \notin visited)
      fresh == MapByKey(unvisited, [i \in 1..Len(unvisited) |-> unvisited[i].edge])
      edges == [i \in 1..Len(fresh) |-> fresh[i].edge]
  IN [edges |-> edges,
      visited |-> visited \cup Range(edges),
      depths |-> [e \in DOMAIN depths \cup Range(edges) |->
                    IF e \in Range(edges)
                    THEN fresh[CHOOSE i \in 1..Len(fresh) : fresh[i].edge = e].depth
                    ELSE depths[e]]]

\* The k the adapter receives: { k: ..., filter: ..., ...storeKwargs }.
EffectiveK(k, storeKwargs) == IF storeKwargs = <<>> THEN k ELSE storeKwargs[1]

Call(op, ids, edges) ==
  [op |-> op, ids |-> ids, edges |-> edges, settled |-> FALSE, result |-> <<>>, order |-> 0,
   failed |-> FALSE, error |-> ""]

\* Traversal.fetchInitialCandidates: the adapter calls it issues.
fetchInitialCandidates(o, strat) ==
  (IF Len(o.initialRootIds) > 0 THEN <<Call("get", o.initialRootIds, <<>>)>> ELSE <<>>)
  \o (IF strat.startK > 0 THEN <<Call("searchWithEmbedding", <<>>, <<>>)>> ELSE <<>>)

\* The traversal state a continuation works on.
Engine ==
  [strategy |-> strategy, nodeTracker |-> nodeTracker, visitedEdges |-> visitedEdges,
   edgeDepths |-> edgeDepths, discoveredNodeIds |-> discoveredNodeIds, pc |-> pc,
   calls |-> calls, output |-> output, error |-> error, handed |-> handed]

Return(e) ==
  [e EXCEPT !.pc = "done", !.output = StrategyFinalize(e.strategy, e.nodeTracker.selected)]

Throw(e, message) == [e EXCEPT !.pc = "failed", !.error = message]

\* One pass of the main loop of Traversal.traverse, up to its await, its
\* break or its exit.
MainLoop(e) ==
  IF shouldStopTraversal(e.nodeTracker) THEN Return(e)
  ELSE LET currentNodes == e.nodeTracker.toTraverse
           cleared == [e EXCEPT !.nodeTracker.toTraverse = <<>>]
           next == selectNextEdges(currentNodes, e.visitedEdges, e.edgeDepths)
           marked == [cleared EXCEPT !.visitedEdges = next.visited, !.edgeDepths = next.depths]
       IN IF Len(currentNodes) = 0 THEN Return(cleared)
          ELSE IF Len(next.edges) = 0 THEN Return(marked)
          ELSE IF Len(e.strategy.queryEmbedding) = 0
               THEN Throw(marked, "Query embedding not available")
          ELSE [marked EXCEPT !.pc = "awaitAdjacent",
                              !.calls = Append(@, Call("adjacent", <<>>, next.edges))]

\* What traverse() does with the contents an await delivered: convert, hand
\* to the strategy, and go round the loop.
Continue(e, contents, depth) ==
  IF Len(contents) = 0 THEN MainLoop(e)
  ELSE LET made == contentsToNewNodes(contents, depth, opts.edges, e.strategy.queryEmbedding,
                                      e.discoveredNodeIds, e.edgeDepths, run)
       IN IF ~made.ok THEN Throw(e, "Number of columns in X and Y must be the same")
          ELSE LET it == iteration(e.strategy, made.nodes, e.nodeTracker)
               IN MainLoop([e EXCEPT !.handed = Append(@, Ids(made.nodes)),
                                     !.discoveredNodeIds = made.discovered,
                                     !.strategy.nodes = it.heap,
                                     !.nodeTracker = it.tracker])

Assign(e) ==
  /\ strategy' = e.strategy
  /\ nodeTracker' = e.nodeTracker
  /\ visitedEdges' = e.visitedEdges
  /\ edgeDepths' = e.edgeDepths
  /\ discoveredNodeIds' = e.discoveredNodeIds
  /\ pc' = e.pc
  /\ calls' = e.calls
  /\ output' = e.output
  /\ error' = e.error
  /\ handed' = e.handed

Unsettled(cs) == {i \in 1..Len(cs) : ~cs[i].settled}

\* results.flat() of Promise.all: the tasks' results in task order.
SeedContentsAsSettled(cs) ==
  LET byOrder == [o \in 1..Len(cs) |-> CHOOSE i \in 1..Len(cs) : cs[i].order = o]
  IN Flatten([o \in 1..Len(cs) |-> Contents(store, cs[byOrder[o]].result)])

SeedContents(cs) == Flatten([i \in 1..Len(cs) |-> Contents(store, cs[i].result)])

\* Call i settles with result; order counts the calls settled so far.
Settle(e, i, result) ==
  [e EXCEPT !.calls[i].settled = TRUE, !.calls[i].result = Ids(result),
            !.calls[i].order = Len(e.calls) - Cardinality(Unsettled(e.calls)) + 1]

\* Call i rejects with message: an awaiting traverse() rethrows it (await
\* store.adjacent; Promise.all rejects with the first rejection); a
\* traverse() that has already failed is not affected.
RejectSwallowed(e, i, message) ==
  [e EXCEPT !.calls[i].settled = TRUE, !.calls[i].failed = TRUE,
            !.calls[i].error = message,
            !.calls[i].order = Len(e.calls) - Cardinality(Unsettled(e.calls)) + 1]

Reject(e, i, message) ==
  LET rejected == [e EXCEPT !.calls[i].settled = TRUE, !.calls[i].failed = TRUE,
                            !.calls[i].error = message,
                            !.calls[i].order = Len(e.calls) - Cardinality(Unsettled(e.calls)) + 1]
  IN IF e.pc = "failed" THEN rejected ELSE Throw(rejected, message)

\* The await of fetchInitialCandidates resumes once every task has settled.
AfterSeedTask(e) ==
  IF Unsettled(e.calls) = {} THEN Continue(e, SeedContents(e.calls), <<0>>) ELSE e

\* ---------------------------------------------------------------- actions
\* The guard at the head of Traversal.traverse: if (this.used) throw.
AlreadyUsedNever(u) == FALSE

AlreadyUsed(u) == u

\* traversal.traverse() is invoked on the instance.
TraversalTraverse ==
  IF AlreadyUsed(used)
  THEN /\ reuseErrors < MaxReuse
       /\ reuseErrors' = reuseErrors + 1
       /\ UNCHANGED <<merge, embeddingFn, store, opts, strategy, used, visitedEdges, edgeDepths,
                      discoveredNodeIds, nodeTracker, pc, calls, output, error,
                      run, firstOutput, handed>>
  ELSE /\ used' = TRUE
       /\ calls' = calls \o fetchInitialCandidates(opts, strategy)
       /\ pc' = "awaitSeeds"
       /\ UNCHANGED <<merge, embeddingFn, store, opts, strategy, visitedEdges, edgeDepths, discoveredNodeIds,
                      nodeTracker, output, error, reuseErrors, run, firstOutput, handed>>

\* Promise.all of an empty task list resolves: no seed call was issued.
NoSeedTasks ==
  /\ pc = "awaitSeeds"
  /\ Len(calls) = 0
  /\ Assign(Continue(Engine, <<>>, <<0>>))
  /\ UNCHANGED <<merge, embeddingFn, store, opts, used, reuseErrors, run, firstOutput>>

\* store.get(initialRootIds, {filter}) settles.
GetReturns ==
  /\ pc = "awaitSeeds"
  /\ \E i \in Unsettled(calls) :
       /\ calls[i].op = "get"
       /\ Assign(AfterSeedTask(
            Settle(Engine, i, get(store, calls[i].ids, opts.metadataFilter))))
  /\ UNCHANGED <<merge, embeddingFn, store, opts, used, reuseErrors, run, firstOutput>>

\* store.searchWithEmbedding(query, {k: startK, filter, ...storeKwargs})
\* settles; its then-callback records the query embedding.
SearchWithEmbeddingReturns ==
  /\ pc = "awaitSeeds"
  /\ \E i \in Unsettled(calls) :
       /\ calls[i].op = "searchWithEmbedding"
       /\ LET queryEmbedding == Embed(opts.query)
              contents == search(store, queryEmbedding,
                                 EffectiveK(strategy.startK, opts.storeKwargs),
                                 opts.metadataFilter)
          IN Assign(AfterSeedTask(
               [Settle(Engine, i, contents) EXCEPT !.strategy.queryEmbedding = queryEmbedding]))
  /\ UNCHANGED <<merge, embeddingFn, store, opts, used, reuseErrors, run, firstOutput>>

\* store.adjacent(edges, queryEmbedding, {k: adjacentK, filter, ...storeKwargs})
\* settles and the loop goes on.
AdjacentReturns ==
  /\ pc = "awaitAdjacent"
  /\ LET i == Len(calls)
         contents == adjacent(store, calls[i].edges, strategy.queryEmbedding,
                              EffectiveK(strategy.adjacentK, opts.storeKwargs),
                              opts.metadataFilter)
     IN Assign(Continue(Settle(Engine, i, contents), contents, <<>>))
  /\ UNCHANGED <<merge, embeddingFn, store, opts, used, reuseErrors, run, firstOutput>>

\* The caller builds a new Traversal with the same arguments and the same
\* strategy object once the previous one has returned.
NewTraversal ==
  /\ pc = "done"
  /\ run < MaxRuns
  /\ run' = run + 1
  /\ firstOutput' = IF run = 1 THEN Ids(output) ELSE firstOutput
  /\ used' = FALSE
  /\ visitedEdges' = {}
  /\ edgeDepths' = <<>>
  /\ discoveredNodeIds' = {}
  /\ nodeTracker' = NodeTracker(strategy.selectK, strategy.maxDepth)
  /\ pc' = "new"
  /\ calls' = <<>>
  /\ output' = <<>>
  /\ error' = ""
  /\ reuseErrors' = 0
  /\ handed' = <<>>
  /\ UNCHANGED <<merge, embeddingFn, store, opts, strategy>>

\* ---------------------------------------------------------------- configurations
EdgeSpecLists ==
  { <<>>,
    << <<"country", "country">> >>,
    << <<"category", "category">> >>,
    << <<"$id", "mentions">> >>,
    << <<"mentions", "$id">> >> }

NoFilter == <<>>

MetadataFilters == {NoFilter, [country |-> "FR"]}

InitialRootIds == {<<>>, <<"d1">>}

StoreKwargs == {<<>>, <<1>>}

AdjacentKs == {1, 4}

MaxDepths == {<<>>, <<0>>, <<1>>}

PerIterationLimits == {<<>>, <<1>>}

Shapes ==
  {[kind |-> "Eager", scorer |-> "similarity", perIterationLimit |-> <<>>]}
  \cup {[kind |-> "Scored", scorer |-> s, perIterationLimit |-> l] :
          s \in Scorers, l \in PerIterationLimits}

Strategies ==
  {[kind |-> sh.kind, scorer |-> sh.scorer, perIterationLimit |-> sh.perIterationLimit,
    selectK |-> sk, k |-> sk, startK |-> st, adjacentK |-> ak, maxDepth |-> md,
    queryEmbedding |-> <<>>, nodes |-> <<>>] :
      sh \in Shapes, sk \in 0..MaxSelectK, st \in 0..MaxStartK,
      ak \in AdjacentKs, md \in MaxDepths}

Options ==
  {[query |-> q, edges |-> es, metadataFilter |-> f, initialRootIds |-> r, storeKwargs |-> kw] :
      q \in Queries, es \in EdgeSpecLists, f \in MetadataFilters,
      r \in InitialRootIds, kw \in StoreKwargs}

Init ==
  /\ embeddingFn = "axis"
  /\ store = Documents
  /\ opts \in Options
  /\ strategy \in Strategies
  /\ used = FALSE
  /\ visitedEdges = {}
  /\ edgeDepths = <<>>
  /\ discoveredNodeIds = {}
  /\ nodeTracker = NodeTracker(strategy.selectK, strategy.maxDepth)
  /\ pc = "new"
  /\ calls = <<>>
  /\ output = <<>>
  /\ error = ""
  /\ reuseErrors = 0
  /\ run = 1
  /\ firstOutput = <<>>
  /\ handed = <<>>
  /\ merge = NoMerge

Next ==
  \/ TraversalTraverse
  \/ NoSeedTasks
  \/ GetReturns
  \/ SearchWithEmbeddingReturns
  \/ AdjacentReturns

Spec == Init /\ [][Next]_vars

NextRerun == Next \/ NewTraversal

SpecRerun == Init /\ [][NextRerun]_vars

\* ---------------------------------------------------------------- Strategy.build before a traversal
\* The retriever builds the strategy from its base strategy and the
\* strategy options of the call, then constructs the Traversal with it.
OptionalSelectKs == {<<>>} \cup {<<n>> : n \in 0..MaxSelectK}

StrategyKwargs ==
  {[k |-> k, selectK |-> sk, startK |-> st] :
     k \in OptionalSelectKs, sk \in OptionalSelectKs, st \in {<<>>, <<1>>}}

BuildBaseStrategies ==
  {s \in Strategies : /\ s.maxDepth = <<>>
                      /\ s.adjacentK = 4
                      /\ s.perIterationLimit = <<>>
                      /\ s.scorer = "similarity"
                      /\ s.startK > 0}

BuildOptions ==
  {o @@ [strategyKwargs |-> kw] :
     o \in {p \in Options : p.metadataFilter = NoFilter /\ p.storeKwargs = <<>>},
     kw \in StrategyKwargs}

StrategyBuild ==
  /\ pc = "unbuilt"
  /\ strategy' = build(strategy, opts.strategyKwargs)
  /\ nodeTracker' = NodeTracker(strategy'.selectK, strategy'.maxDepth)
  /\ pc' = "new"
  /\ UNCHANGED <<merge, embeddingFn, store, opts, used, visitedEdges, edgeDepths, discoveredNodeIds,
                 calls, output, error, reuseErrors, run, firstOutput, handed>>

InitBuild ==
  /\ embeddingFn = "axis"
  /\ store = Documents
  /\ opts \in BuildOptions
  /\ strategy \in BuildBaseStrategies
  /\ used = FALSE
  /\ visitedEdges = {}
  /\ edgeDepths = <<>>
  /\ discoveredNodeIds = {}
  /\ nodeTracker = NodeTracker(strategy.selectK, strategy.maxDepth)
  /\ pc = "unbuilt"
  /\ calls = <<>>
  /\ output = <<>>
  /\ error = ""
  /\ reuseErrors = 0
  /\ run = 1
  /\ firstOutput = <<>>
  /\ handed = <<>>
  /\ merge = NoMerge

NextBuild == StrategyBuild \/ (pc # "unbuilt" /\ Next)

SpecBuild == InitBuild /\ [][NextBuild]_vars

\* ---------------------------------------------------------------- failing adapter calls
\* The store may reject any call.  A seed call that is still pending when
\* traverse() has failed settles later without anyone awaiting it; the
\* then-callback of a late searchWithEmbedding still runs.
AdapterErrors ==
  [get |-> "get failed", searchWithEmbedding |-> "searchWithEmbedding failed",
   adjacent |-> "adjacent failed"]

GetFails ==
  /\ pc \in {"awaitSeeds", "failed"}
  /\ \E i \in Unsettled(calls) :
       /\ calls[i].op = "get"
       /\ Assign(Reject(Engine, i, AdapterErrors["get"]))
  /\ UNCHANGED <<merge, embeddingFn, store, opts, used, reuseErrors, run, firstOutput>>

SearchWithEmbeddingFails ==
  /\ pc \in {"awaitSeeds", "failed"}
  /\ \E i \in Unsettled(calls) :
       /\ calls[i].op = "searchWithEmbedding"
       /\ Assign(Reject(Engine, i, AdapterErrors["searchWithEmbedding"]))
  /\ UNCHANGED <<merge, embeddingFn, store, opts, used, reuseErrors, run, firstOutput>>

AdjacentFails ==
  /\ pc = "awaitAdjacent"
  /\ Assign(Reject(Engine, Len(calls), AdapterErrors["adjacent"]))
  /\ UNCHANGED <<merge, embeddingFn, store, opts, used, reuseErrors, run, firstOutput>>

SeedReturnsLate ==
  /\ pc = "failed"
  /\ \E i \in Unsettled(calls) :
       IF calls[i].op = "get"
       THEN Assign(Settle(Engine, i, get(store, calls[i].ids, opts.metadataFilter)))
       ELSE LET queryEmbedding == Embed(opts.query)
                contents == search(store, queryEmbedding,
                                   EffectiveK(strategy.startK, opts.storeKwargs),
                                   opts.metadataFilter)
            IN Assign([Settle(Engine, i, contents)
                         EXCEPT !.strategy.queryEmbedding = queryEmbedding])
  /\ UNCHANGED <<merge, embeddingFn, store, opts, used, reuseErrors, run, firstOutput>>

NextFail ==
  \/ Next
  \/ GetFails
  \/ SearchWithEmbeddingFails
  \/ AdjacentFails
  \/ SeedReturnsLate

SpecFail == Init /\ [][NextFail]_vars

\* The end-to-end scenarios: the four scenario documents under E(t) =
\* [len(t), 0, 0], traversed with the options and strategies the scenarios
\* draw from.
ScenarioQueries == {"Paris", "London", "city"}

ScenarioEdgeSpecLists ==
  { << <<"country", "country">> >>,
    << <<"category", "category">> >>,
    << <<"$id", "mentions">> >> }

ScenarioSelectKs == {2, 3, 4}

ScenarioStartKs == {0, 1, 2, 4}

DEFAULT_ADJACENT_K == 10

ScenarioStrategies ==
  {[kind |-> sh.kind, scorer |-> sh.scorer, perIterationLimit |-> <<>>,
    selectK |-> sk, k |-> sk, startK |-> st, adjacentK |-> DEFAULT_ADJACENT_K, maxDepth |-> md,
    queryEmbedding |-> <<>>, nodes |-> <<>>] :
      sh \in {[kind |-> "Eager", scorer |-> "similarity"],
              [kind |-> "Scored", scorer |-> "negDepth"]},
      sk \in ScenarioSelectKs, st \in ScenarioStartKs, md \in {<<>>, <<0>>}}

ScenarioOptions ==
  {[query |-> q, edges |-> es, metadataFilter |-> f, initialRootIds |-> r,
    storeKwargs |-> <<>>] :
      q \in ScenarioQueries, es \in ScenarioEdgeSpecLists, f \in MetadataFilters,
      r \in InitialRootIds}

InitScenario ==
  /\ embeddingFn = "length"
  /\ store = ScenarioDocuments
  /\ opts \in ScenarioOptions
  /\ strategy \in ScenarioStrategies
  /\ used = FALSE
  /\ visitedEdges = {}
  /\ edgeDepths = <<>>
  /\ discoveredNodeIds = {}
  /\ nodeTracker = NodeTracker(strategy.selectK, strategy.maxDepth)
  /\ pc = "new"
  /\ calls = <<>>
  /\ output = <<>>
  /\ error = ""
  /\ reuseErrors = 0
  /\ run = 1
  /\ firstOutput = <<>>
  /\ handed = <<>>
  /\ merge = NoMerge

SpecScenario == InitScenario /\ [][Next]_vars

\* traverse() is suspended on an adapter call (or on Promise.all of none).
Awaiting == pc \in {"awaitSeeds", "awaitAdjacent"}

\* The same traversals when the caller does invoke traverse() and every
\* adapter call the engine awaits returns.  The second condition is weak
\* fairness of the steps that resume an awaiting traverse(), written out:
\* such a step is enabled exactly while traverse() is awaiting.
SpecFair ==
  /\ InitScenario
  /\ [][Next]_vars
  /\ WF_vars(TraversalTraverse)
  /\ ([]<>~Awaiting \/ []<><<Next>>_vars)

\* The scenario traversals with strategy.maxTraverse set: the Strategy
\* constructor stores the option on the strategy object.
MaxTraverses == {<<1>>, <<2>>}

InitMaxTraverse ==
  /\ embeddingFn = "length"
  /\ store = ScenarioDocuments
  /\ opts \in ScenarioOptions
  /\ strategy \in {[maxTraverse |-> mt] @@ st : st \in ScenarioStrategies, mt \in MaxTraverses}
  /\ used = FALSE
  /\ visitedEdges = {}
  /\ edgeDepths = <<>>
  /\ discoveredNodeIds = {}
  /\ nodeTracker = NodeTracker(strategy.selectK, strategy.maxDepth)
  /\ pc = "new"
  /\ calls = <<>>
  /\ output = <<>>
  /\ error = ""
  /\ reuseErrors = 0
  /\ run = 1
  /\ firstOutput = <<>>
  /\ handed = <<>>
  /\ merge = NoMerge

SpecMaxTraverse == InitMaxTraverse /\ [][Next]_vars

\* ---------------------------------------------------------------- the adapter on its own
\* A client calls InMemory.get or InMemory.search once on a store whose
\* metadata has scalars, arrays, nested mappings and a literal dotted key.
AdapterDocuments ==
  << createContent("a1", <<1, 0>>,
       [country |-> Scalar("FR"), address |-> Object([city |-> Scalar("Paris")]),
        tags |-> Array(<<"x", "y">>)]),
     createContent("a2", <<4, 3>>,
       [country |-> Array(<<"FR", "UK">>),
        address |-> Object([city |-> Array(<<"Paris", "Lyon">>)]),
        tags |-> Array(<<"y", "x">>)]),
     createContent("a3", <<3, 4>>,
       ("address.city" :> Scalar("Paris"))
       @@ [country |-> Scalar("UK"), tags |-> Scalar("x")]),
     createContent("a4", <<0, 1>>,
       [country |-> Scalar("FR"), address |-> Scalar("Paris")]) >>

RECURSIVE SeqsUpTo(_, _)
SeqsUpTo(S, n) ==
  IF n = 0 THEN {<<>>}
  ELSE LET shorter == SeqsUpTo(S, n - 1)
       IN shorter \cup {Append(s, x) : s \in shorter, x \in S}

AdapterIds == {"a1", "a2", "a3", "zz"}

IdLists == SeqsUpTo(AdapterIds, MaxIds)

FilterKeys == {"country", "address", "address.city", "tags.0", "missing"}

FilterValues == {"FR", "Paris", "x"}

AdapterFilters ==
  UNION {[keys -> FilterValues] : keys \in {K \in SUBSET FilterKeys : Cardinality(K) <= 2}}

AdapterKs == {0, 1, 4}

DefaultOptions ==
  [query |-> "Paris", edges |-> <<>>, metadataFilter |-> NoFilter,
   initialRootIds |-> <<>>, storeKwargs |-> <<>>]

DefaultStrategy ==
  [kind |-> "Eager", scorer |-> "similarity", perIterationLimit |-> <<>>,
   selectK |-> MaxSelectK, k |-> MaxSelectK, startK |-> MaxStartK,
   adjacentK |-> DEFAULT_ADJACENT_K,
   maxDepth |-> <<>>, queryEmbedding |-> <<>>, nodes |-> <<>>]

AdapterCall(op, ids, queryEmbedding, k, filter, result) ==
  [op |-> op, ids |-> ids, queryEmbedding |-> queryEmbedding, k |-> k, filter |-> filter,
   settled |-> TRUE, result |-> Ids(result)]

\* adapter.get(ids, {filter})
InMemoryGet ==
  /\ calls = <<>>
  /\ \E ids \in IdLists, filter \in AdapterFilters :
       calls' = <<AdapterCall("get", ids, <<>>, 0, filter, get(store, ids, filter))>>
  /\ UNCHANGED <<merge, embeddingFn, store, opts, strategy, used, visitedEdges, edgeDepths,
                 discoveredNodeIds, nodeTracker, pc, output, error, reuseErrors, run,
                 firstOutput, handed>>

\* adapter.search(embedding, {k, filter})
InMemorySearch ==
  /\ calls = <<>>
  /\ \E q \in Queries, k \in AdapterKs, filter \in AdapterFilters :
       calls' = <<AdapterCall("search", <<>>, Embed(q), k, filter,
                              search(store, Embed(q), k, filter))>>
  /\ UNCHANGED <<merge, embeddingFn, store, opts, strategy, used, visitedEdges, edgeDepths,
                 discoveredNodeIds, nodeTracker, pc, output, error, reuseErrors, run,
                 firstOutput, handed>>

InitAdapter ==
  /\ embeddingFn = "axis"
  /\ store = AdapterDocuments
  /\ opts = DefaultOptions
  /\ strategy = DefaultStrategy
  /\ used = FALSE
  /\ visitedEdges = {}
  /\ edgeDepths = <<>>
  /\ discoveredNodeIds = {}
  /\ nodeTracker = NodeTracker(strategy.selectK, strategy.maxDepth)
  /\ pc = "new"
  /\ calls = <<>>
  /\ output = <<>>
  /\ error = ""
  /\ reuseErrors = 0
  /\ run = 1
  /\ firstOutput = <<>>
  /\ handed = <<>>
  /\ merge = NoMerge

NextAdapter == InMemoryGet \/ InMemorySearch

SpecAdapter == InitAdapter /\ [][NextAdapter]_vars

\* ---------------------------------------------------------------- the tracker on its own
\* A strategy calls select, traverse and selectAndTraverse on one
\* NodeTracker in any order, and the engine clears toTraverse between
\* rounds.  calls holds the last call: what it was offered, what it
\* returned and what the tracker looked like before.
NoEdges == [incoming |-> <<>>, outgoing |-> <<>>]

TrackerNodes ==
  {createNode(id, depth, Frac(0, 1), NoEdges) : id \in {"n1", "n2"}, depth \in {0, 1}}

NodeLists == SeqsUpTo(TrackerNodes, MaxNodes)

TrackerCall(op, nodes, count, tracker) ==
  [op |-> op, offered |-> Range(Ids(nodes)), count |-> count,
   before |-> Range(Ids(tracker.toTraverse)), logBefore |-> Len(tracker.queuedLog)]

\* tracker.select(nodes)
TrackerSelect ==
  /\ \E nodes \in NodeLists :
       /\ Len(nodeTracker.selected) + Len(nodes) <= MaxSelected
       /\ nodeTracker' = select(nodeTracker, nodes)
       /\ calls' = <<TrackerCall("select", nodes, 0, nodeTracker)>>
  /\ UNCHANGED <<merge, embeddingFn, store, opts, strategy, used, visitedEdges, edgeDepths,
                 discoveredNodeIds, pc, output, error, reuseErrors, run, firstOutput, handed>>

\* tracker.traverse(nodes)
TrackerTraverse ==
  /\ \E nodes \in NodeLists :
       LET done == traverse(nodeTracker, nodes)
       IN /\ nodeTracker' = done.tracker
          /\ calls' = <<TrackerCall("traverse", nodes, done.count, nodeTracker)>>
  /\ UNCHANGED <<merge, embeddingFn, store, opts, strategy, used, visitedEdges, edgeDepths,
                 discoveredNodeIds, pc, output, error, reuseErrors, run, firstOutput, handed>>

\* tracker.selectAndTraverse(nodes)
TrackerSelectAndTraverse ==
  /\ \E nodes \in NodeLists :
       LET done == selectAndTraverse(nodeTracker, nodes)
       IN /\ Len(nodeTracker.selected) + Len(nodes) <= MaxSelected
          /\ nodeTracker' = done.tracker
          /\ calls' = <<TrackerCall("selectAndTraverse", nodes, done.count, nodeTracker)>>
  /\ UNCHANGED <<merge, embeddingFn, store, opts, strategy, used, visitedEdges, edgeDepths,
                 discoveredNodeIds, pc, output, error, reuseErrors, run, firstOutput, handed>>

\* The engine takes the frontier: nodeTracker.toTraverse.clear()
TrackerClear ==
  /\ Len(nodeTracker.toTraverse) > 0
  /\ nodeTracker' = [nodeTracker EXCEPT !.toTraverse = <<>>]
  /\ calls' = <<TrackerCall("clear", <<>>, 0, nodeTracker)>>
  /\ UNCHANGED <<merge, embeddingFn, store, opts, strategy, used, visitedEdges, edgeDepths,
                 discoveredNodeIds, pc, output, error, reuseErrors, run, firstOutput, handed>>

InitTracker ==
  /\ embeddingFn = "axis"
  /\ store = Documents
  /\ opts = DefaultOptions
  /\ strategy \in {[DefaultStrategy EXCEPT !.maxDepth = md] : md \in MaxDepths}
  /\ used = FALSE
  /\ visitedEdges = {}
  /\ edgeDepths = <<>>
  /\ discoveredNodeIds = {}
  /\ nodeTracker = NodeTracker(strategy.selectK, strategy.maxDepth)
  /\ pc = "new"
  /\ calls = <<>>
  /\ output = <<>>
  /\ error = ""
  /\ reuseErrors = 0
  /\ run = 1
  /\ firstOutput = <<>>
  /\ handed = <<>>
  /\ merge = NoMerge

NextTracker ==
  \/ TrackerSelect
  \/ TrackerTraverse
  \/ TrackerSelectAndTraverse
  \/ TrackerClear

SpecTracker == InitTracker /\ [][NextTracker]_vars

\* ---------------------------------------------------------------- topK on its own
\* A client calls topK, then calls it again on what it returned with the
\* same embedding and k.  The pool has contents that share an id (c1 twice)
\* and contents that tie (equal embeddings).
ContentPool ==
  { createContent("c1", <<1, 0>>, <<>>),
    createContent("c1", <<0, 1>>, <<>>),
    createContent("c2", <<1, 0>>, <<>>),
    createContent("c3", <<4, 3>>, <<>>),
    createContent("c4", <<3, 4>>, <<>>) }

ContentLists == SeqsUpTo(ContentPool, MaxContents)

TopKEmbeddings == {<<1, 0>>, <<0, 1>>, <<0, 0>>}

TopKCall(contents, embedding, k) ==
  [op |-> "topK", contents |-> contents, embedding |-> embedding, k |-> k,
   result |-> topK(contents, embedding, k)]

\* topK(contents, {embedding, k})
TopKFirst ==
  /\ calls = <<>>
  /\ \E contents \in ContentLists, e \in TopKEmbeddings, k \in 0..MaxContents :
       calls' = <<TopKCall(contents, e, k)>>
  /\ UNCHANGED <<merge, embeddingFn, store, opts, strategy, used, visitedEdges, edgeDepths,
                 discoveredNodeIds, nodeTracker, pc, output, error, reuseErrors, run,
                 firstOutput, handed>>

\* topK(previous result, {embedding, k}) with the same embedding and k
TopKAgain ==
  /\ Len(calls) = 1
  /\ calls' = Append(calls, TopKCall(calls[1].result, calls[1].embedding, calls[1].k))
  /\ UNCHANGED <<merge, embeddingFn, store, opts, strategy, used, visitedEdges, edgeDepths,
                 discoveredNodeIds, nodeTracker, pc, output, error, reuseErrors, run,
                 firstOutput, handed>>

NextTopK == TopKFirst \/ TopKAgain

SpecTopK == InitAdapter /\ [][NextTopK]_vars

\* ---------------------------------------------------------------- the edge extractor on its own
\* A client builds a MetadataEdgeFunction from a spec list and calls it on
\* one content; calls holds the call and its result.
EdgeSpecPool ==
  { <<"country", "country">>, <<"origin", "country">>, <<"category", "topic">>,
    <<"$id", "mentions">>, <<"mentions", "$id">> }

EdgeContents ==
  { createContent("e1", <<1, 0>>,
      [country |-> Scalar("FR"), origin |-> Scalar("FR"), category |-> Scalar("geo"),
       topic |-> Scalar("art"), mentions |-> Array(<<"e2", "e2">>)]),
    createContent("e2", <<4, 3>>,
      [country |-> Array(<<"FR", "UK", "FR">>), origin |-> Scalar("UK"),
       mentions |-> Scalar("e1")]),
    createContent("e3", <<3, 4>>,
      [category |-> Scalar("geo"), topic |-> Array(<<"geo", "art">>),
       country |-> Object([code |-> Scalar("FR")])]),
    createContent("e4", <<0, 1>>, [origin |-> Scalar("UK")]) }

MetadataEdgeFunctionCall ==
  /\ calls = <<>>
  /\ \E specs \in SeqsUpTo(EdgeSpecPool, MaxSpecs), content \in EdgeContents :
       calls' = <<[op |-> "call", specs |-> specs, content |-> content,
                   result |-> edgeFunction(specs, content, run)]>>
  /\ UNCHANGED <<merge, embeddingFn, store, opts, strategy, used, visitedEdges, edgeDepths,
                 discoveredNodeIds, nodeTracker, pc, output, error, reuseErrors, run,
                 firstOutput, handed>>

SpecEdgeFunction == InitAdapter /\ [][MetadataEdgeFunctionCall]_vars

\* ---------------------------------------------------------------- langchain document-graph.ts
\* JSON.stringify(edge): the edge's own properties, that is its payload
\* without the object's identity.
EdgeKey(edge) == [type |-> edge.type, field |-> edge.field, value |-> edge.value]

\* The ids linked from one document: linkedTo, a Set<string>, in insertion
\* order, given the outgoing edges and the documents indexed by incoming
\* edge key.
linkedTo(outgoing, byIncoming) ==
  LET targets == Flatten([i \in 1..Len(outgoing) |->
                            IF EdgeKey(outgoing[i]) \in DOMAIN byIncoming
                            THEN byIncoming[EdgeKey(outgoing[i])] ELSE <<>>])
  IN MapByKey(targets, targets)

\* createGraph(documents, edges) for a list of edge specs: the vertex ids
\* (graph.nodes, a Map keyed by id) and the arcs (graph.edges) in order.
createGraphWithSelfLoops(documents, specs) ==
  LET last == MapByKey(documents, Ids(documents))
      extracted == [d \in 1..Len(documents) |-> edgeFunction(specs, documents[d], d)]
      keys == UNION {{EdgeKey(extracted[d].incoming[i]) : i \in 1..Len(extracted[d].incoming)} :
                       d \in 1..Len(documents)}
      holders(key) == SelectSeq([d \in 1..Len(documents) |-> d],
                        LAMBDA d : \E i \in 1..Len(extracted[d].incoming) :
                                      EdgeKey(extracted[d].incoming[i]) = key)
      byIncoming == [key \in keys |->
                       LET ids == [h \in 1..Len(holders(key)) |-> documents[holders(key)[h]].id]
                       IN MapByKey(ids, ids)]
      outgoingById == MapByKey([d \in 1..Len(documents) |->
                                  [id |-> documents[d].id, outgoing |-> extracted[d].outgoing]],
                               Ids(documents))
  IN [nodes |-> Ids(last),
      edges |-> Flatten([n \in 1..Len(outgoingById) |->
                  LET linked == linkedTo(outgoingById[n].outgoing, byIncoming)
                  IN [t \in 1..Len(linked) |->
                        [source |-> outgoingById[n].id, target |-> linked[t]]]])]

createGraph(documents, specs) ==
  LET last == MapByKey(documents, Ids(documents))
      extracted == [d \in 1..Len(documents) |-> edgeFunction(specs, documents[d], d)]
      keys == UNION {{EdgeKey(extracted[d].incoming[i]) : i \in 1..Len(extracted[d].incoming)} :
                       d \in 1..Len(documents)}
      holders(key) == SelectSeq([d \in 1..Len(documents) |-> d],
                        LAMBDA d : \E i \in 1..Len(extracted[d].incoming) :
                                      EdgeKey(extracted[d].incoming[i]) = key)
      byIncoming == [key \in keys |->
                       LET ids == [h \in 1..Len(holders(key)) |-> documents[holders(key)[h]].id]
                       IN MapByKey(ids, ids)]
      outgoingById == MapByKey([d \in 1..Len(documents) |->
                                  [id |-> documents[d].id, outgoing |-> extracted[d].outgoing]],
                               Ids(documents))
  IN [nodes |-> Ids(last),
      edges |-> Flatten([n \in 1..Len(outgoingById) |->
                  LET linked == SelectSeq(linkedTo(outgoingById[n].outgoing, byIncoming),
                                          LAMBDA target : target # outgoingById[n].id)
                  IN [t \in 1..Len(linked) |->
                        [source |-> outgoingById[n].id, target |-> linked[t]]]])]

\* A client calls createGraph once on a list of documents (given by id and
\* metadata) with a list of edge specs.
CreateGraph ==
  /\ calls = <<>>
  /\ \E documents \in SeqsUpTo(EdgeContents, MaxDocs), specs \in SeqsUpTo(EdgeSpecPool, MaxSpecs) :
       calls' = <<[op |-> "createGraph", documents |-> documents, specs |-> specs,
                   result |-> createGraph(documents, specs)]>>
  /\ UNCHANGED <<merge, embeddingFn, store, opts, strategy, used, visitedEdges, edgeDepths,
                 discoveredNodeIds, nodeTracker, pc, output, error, reuseErrors, run,
                 firstOutput, handed>>

SpecGraph == InitAdapter /\ [][CreateGraph]_vars

\* ---------------------------------------------------------------- cosineSimilarity on its own
\* A client calls cosineSimilarity once on two matrices given as lists of
\* rows; the rows need not have the same width.
MatrixRows == {<<1, 0>>, <<0, 0>>, <<3, 4>>, <<1, 0, 0>>, <<0, 0, 0>>}

CosineSimilarityCall ==
  /\ calls = <<>>
  /\ \E X \in SeqsUpTo(MatrixRows, MaxRows), Y \in SeqsUpTo(MatrixRows, MaxRows) :
       calls' = <<[op |-> "cosineSimilarity", X |-> X, Y |-> Y,
                   result |-> cosineSimilarity(X, Y)]>>
  /\ UNCHANGED <<merge, embeddingFn, store, opts, strategy, used, visitedEdges, edgeDepths,
                 discoveredNodeIds, nodeTracker, pc, output, error, reuseErrors, run,
                 firstOutput, handed>>

SpecCosine == InitAdapter /\ [][CosineSimilarityCall]_vars

\* ---------------------------------------------------------------- utils/merge.ts
\* Values that can travel through the queue.  A primitive is
\* [kind |-> "value", v |-> _]; an object is [kind |-> "object", ...] with
\* its properties as further fields.  tag is the object's identity (which
\* object it is), not a property the code can see.
Primitive(v) == [kind |-> "value", v |-> v]

\* The marker a pump pushes: { exception: false } or { exception: true }.
Done(exception) == [kind |-> "object", exception |-> exception, tag |-> "done"]

\* An item that is an object carrying a property named exception.
ItemWithException(exception) == [kind |-> "object", exception |-> exception, tag |-> "item"]

\* isDone: typeof item === 'object' && item !== null && 'exception' in item
isDone(item) == item.kind = "object" /\ "exception" \in DOMAIN item

MergeItems == {Primitive(1), Primitive(2), ItemWithException(FALSE)}

\* The inputs: up to two async iterables that complete without error,
\* each given by the items it yields.
MergeInputs == SeqsUpTo(SeqsUpTo(MergeItems, MaxItems), 2)

\* The generator body starts at the first next(): pendingCount is set and
\* every pump is started.
AmergeStart ==
  /\ merge.pc = "start"
  /\ merge' = [merge EXCEPT !.pendingCount = Len(merge.asyncIterables),
                            !.pc = IF Len(merge.asyncIterables) = 0
                                   THEN "completed" ELSE "loop"]
  /\ UNCHANGED <<embeddingFn, store, opts, strategy, used, visitedEdges, edgeDepths,
                 discoveredNodeIds, nodeTracker, pc, calls, output, error, reuseErrors,
                 run, firstOutput, handed>>

\* Pump i receives the next item of its iterable: queue.push(item).
PumpPush ==
  /\ merge.pc \in {"loop", "finally"}
  /\ \E i \in 1..Len(merge.asyncIterables) :
       /\ merge.pumps[i] = "running"
       /\ merge.taken[i] < Len(merge.asyncIterables[i])
       /\ merge' = [merge EXCEPT
                      !.queue = Append(@, merge.asyncIterables[i][merge.taken[i] + 1]),
                      !.taken[i] = @ + 1]
  /\ UNCHANGED <<embeddingFn, store, opts, strategy, used, visitedEdges, edgeDepths,
                 discoveredNodeIds, nodeTracker, pc, calls, output, error, reuseErrors,
                 run, firstOutput, handed>>

\* Pump i finds its iterable exhausted: queue.push({ exception: false }).
PumpDone ==
  /\ merge.pc \in {"loop", "finally"}
  /\ \E i \in 1..Len(merge.asyncIterables) :
       /\ merge.pumps[i] = "running"
       /\ merge.taken[i] = Len(merge.asyncIterables[i])
       /\ merge' = [merge EXCEPT !.queue = Append(@, Done(FALSE)),
                                 !.pumps[i] = "done"]
  /\ UNCHANGED <<embeddingFn, store, opts, strategy, used, visitedEdges, edgeDepths,
                 discoveredNodeIds, nodeTracker, pc, calls, output, error, reuseErrors,
                 run, firstOutput, handed>>

\* One pass of the consumer loop with a non-empty queue: shift, then count
\* a marker down, break on an exception marker, or yield the item.
AmergeShift ==
  /\ merge.pc = "loop"
  /\ Len(merge.queue) > 0
  /\ LET item == Head(merge.queue)
         shifted == [merge EXCEPT !.queue = Tail(@)]
     IN merge' =
          IF isDone(item)
          THEN IF item.exception THEN [shifted EXCEPT !.pc = "finally"]
               ELSE [shifted EXCEPT !.pendingCount = @ - 1,
                                    !.pc = IF merge.pendingCount - 1 > 0
                                           THEN "loop" ELSE "finally"]
          ELSE [shifted EXCEPT !.yielded = Append(@, item)]
  /\ UNCHANGED <<embeddingFn, store, opts, strategy, used, visitedEdges, edgeDepths,
                 discoveredNodeIds, nodeTracker, pc, calls, output, error, reuseErrors,
                 run, firstOutput, handed>>

\* finally: await Promise.allSettled(tasks) resumes once every pump ended.
AmergeFinally ==
  /\ merge.pc = "finally"
  /\ \A i \in 1..Len(merge.pumps) : merge.pumps[i] = "done"
  /\ merge' = [merge EXCEPT !.pc = "completed"]
  /\ UNCHANGED <<embeddingFn, store, opts, strategy, used, visitedEdges, edgeDepths,
                 discoveredNodeIds, nodeTracker, pc, calls, output, error, reuseErrors,
                 run, firstOutput, handed>>

InitMerge ==
  /\ embeddingFn = "axis"
  /\ store = Documents
  /\ opts = DefaultOptions
  /\ strategy = DefaultStrategy
  /\ used = FALSE
  /\ visitedEdges = {}
  /\ edgeDepths = <<>>
  /\ discoveredNodeIds = {}
  /\ nodeTracker = NodeTracker(strategy.selectK, strategy.maxDepth)
  /\ pc = "new"
  /\ calls = <<>>
  /\ output = <<>>
  /\ error = ""
  /\ reuseErrors = 0
  /\ run = 1
  /\ firstOutput = <<>>
  /\ handed = <<>>
  /\ \E inputs \in MergeInputs :
       merge = [pc |-> "start", asyncIterables |-> inputs,
                pumps |-> [i \in 1..Len(inputs) |-> "running"],
                taken |-> [i \in 1..Len(inputs) |-> 0],
                queue |-> <<>>, pendingCount |-> 0, yielded |-> <<>>]

NextMerge ==
  \/ AmergeStart
  \/ PumpPush
  \/ PumpDone
  \/ AmergeShift
  \/ AmergeFinally

SpecMerge == InitMerge /\ [][NextMerge]_vars

\* ---------------------------------------------------------------- langchain conversion.ts
\* { ...a, ...b }: the keys of both, b's value where both have the key.
Spread(a, b) ==
  [key \in DOMAIN a \cup DOMAIN b |-> IF key \in DOMAIN b THEN b[key] ELSE a[key]]

\* nodeToDoc: metadata is { ...node.extraMetadata, ...node.metadata }.
nodeToDoc(node) ==
  [id |-> node.id, pageContent |-> node.content,
   metadata |-> Spread(node.extraMetadata, node.metadata)]

\* Output nodes whose document metadata and extraMetadata may share keys.
MetadataKeys == {"key", "_depth", "_score"}

Mappings(values) == UNION {[keys -> values] : keys \in SUBSET MetadataKeys}

DocNodes ==
  {[id |-> "d1", content |-> "Paris", metadata |-> m, extraMetadata |-> x] :
     m \in Mappings({"doc", "other"}), x \in Mappings({"extra", "engine"})}

\* The retriever converts an output node.
NodeToDoc ==
  /\ calls = <<>>
  /\ \E node \in DocNodes :
       calls' = <<[op |-> "nodeToDoc", node |-> node, result |-> nodeToDoc(node)]>>
  /\ UNCHANGED <<merge, embeddingFn, store, opts, strategy, used, visitedEdges, edgeDepths,
                 discoveredNodeIds, nodeTracker, pc, output, error, reuseErrors, run,
                 firstOutput, handed>>

SpecDoc == InitAdapter /\ [][NodeToDoc]_vars

\* ---------------------------------------------------------------- properties
Returned == pc = "done"

Distinct(s) == \A i, j \in 1..Len(s) : i # j => s[i] # s[j]

AdjacentCalls == {i \in 1..Len(calls) : calls[i].op = "adjacent"}

SettledCalls == {i \in 1..Len(calls) : calls[i].settled}

Matching(id) == matches(opts.metadataFilter, ContentById(store, id))

\* C1: the sequence traverse returns has at most strategy.selectK nodes.
C1_AtMostSelectK == Returned => Len(output) <= strategy.selectK

C1_Witness ==
  /\ Returned
  /\ strategy.selectK > 0
  /\ Len(nodeTracker.selected) > strategy.selectK
  /\ Len(output) = strategy.selectK

\* C2: with a freshly constructed strategy no two returned nodes have the
\* same id, also when get and the similarity search both return a document
\* or adjacent returns it again in a later round.
C2_UniqueIds == (Returned /\ run = 1) => Distinct(Ids(output))

C2_Witness ==
  /\ Returned
  /\ run = 1
  /\ \E i, j \in SettledCalls :
       /\ i < j
       /\ \E id \in Range(calls[i].result) \cap Range(calls[j].result) :
            id \in Range(Ids(output))
  /\ AdjacentCalls # {}

\* C3: under metadataFilter F a content that does not match F is never
\* among the seeds, never among the contents an adjacent call returns and
\* never in the output of traverse.
C3_FilterEverywhere ==
  /\ \A i \in SettledCalls : \A id \in Range(calls[i].result) : Matching(id)
  /\ \A i \in 1..Len(output) : Matching(output[i].id)

\* C4: every content adjacent returns through a Metadata edge (field f,
\* value v) under base filter F satisfies every key of F and has
\* metadata[f] matching v, also when F itself has the key f.
C4_ConjoinedFilter ==
  \A i \in SettledCalls \cap AdjacentCalls :
    (\A j \in 1..Len(calls[i].edges) : calls[i].edges[j].type = "metadata") =>
      \A id \in Range(calls[i].result) :
        /\ \A key \in DOMAIN opts.metadataFilter :
             valueMatches(opts.metadataFilter[key],
                          nestedGet(ContentById(store, id).metadata, key))
        /\ \E j \in 1..Len(calls[i].edges) :
             valueMatches(calls[i].edges[j].value,
                          nestedGet(ContentById(store, id).metadata, calls[i].edges[j].field))

\* The nodes the traversal has produced and still holds.
ProducedNodes ==
  Range(nodeTracker.selected) \cup Range(nodeTracker.toTraverse)
  \cup {strategy.nodes[i].node : i \in 1..Len(strategy.nodes)}

\* C5: with maxDepth = D every produced node has depth >= 0, no returned
\* node has depth > D, and no node is queued into toTraverse with
\* depth >= D.
C5_DepthBound ==
  /\ \A n \in ProducedNodes : n.depth >= 0
  /\ strategy.maxDepth # <<>> =>
       /\ \A i \in 1..Len(output) : output[i].depth <= strategy.maxDepth[1]
       /\ \A n \in Range(nodeTracker.toTraverse) : n.depth < strategy.maxDepth[1]
       /\ \A n \in Range(nodeTracker.selected) :
            n.id \in nodeTracker.visitedNodeIds => n.depth < strategy.maxDepth[1]

C5_Witness ==
  /\ Returned
  /\ strategy.maxDepth = <<0>>
  /\ Len(output) > 0
  /\ \E i \in 1..Len(output) : Len(output[i].outgoingEdges) > 0
  /\ nodeTracker.visitedNodeIds = {}
  /\ AdjacentCalls = {}

\* C6: a second traversal with the same query, edges, store and strategy
\* object returns the same sequence of node ids as the first.
C6_SameOutputOnRerun == (Returned /\ run = 2) => Ids(output) = firstOutput

\* C7: with startK = 0 and a non-empty initialRootIds traverse completes
\* successfully, and with initialRootIds = [d1], edges = [($id, mentions)]
\* and no document mentioning d1 it returns exactly [d1].
C7_RootsOnly ==
  (strategy.startK = 0 /\ opts.initialRootIds # <<>> /\ run = 1) =>
    /\ pc # "failed"
    /\ (Returned /\ opts.initialRootIds = <<"d1">> /\ opts.metadataFilter = NoFilter
        /\ opts.edges = << <<"$id", "mentions">> >> /\ strategy.selectK > 0)
         => Ids(output) = <<"d1">>

\* C8: a second traverse() on the same instance, at whatever point the
\* first call stands, fails with an error, issues no adapter call and
\* changes none of the traversal state.
C8_SingleShot ==
  [][(used /\ TraversalTraverse) =>
       /\ reuseErrors' = reuseErrors + 1
       /\ UNCHANGED <<calls, nodeTracker, discoveredNodeIds, visitedEdges, edgeDepths,
                      strategy, pc, output, error, handed>>]_vars

C8_Witness ==
  /\ reuseErrors > 0
  /\ pc = "awaitAdjacent"
  /\ Len(nodeTracker.selected) > 0

SimilarityTo(id) == cosine(Embed(opts.query), ContentById(store, id).embedding)

Eligible == {store[i].id : i \in {j \in 1..Len(store) : Matching(store[j].id)}}

IsTopBySimilarity(ids, k) ==
  /\ Distinct(ids)
  /\ Range(ids) \subseteq Eligible
  /\ Len(ids) = Min2(k, Cardinality(Eligible))
  /\ \A i \in 1..(Len(ids) - 1) : ~FracLess(SimilarityTo(ids[i]), SimilarityTo(ids[i + 1]))
  /\ \A id \in Eligible \ Range(ids) :
       \A i \in 1..Len(ids) : ~FracLess(SimilarityTo(ids[i]), SimilarityTo(id))

\* Whether fewer than k eligible contents are strictly more similar than id.
InTopBySimilarity(id, k) ==
  Cardinality({e \in Eligible : FracLess(SimilarityTo(id), SimilarityTo(e))}) < k

NoGraph == opts.edges = <<>> /\ opts.initialRootIds = <<>> /\ run = 1

SeedK == IF strategy.startK = 0 THEN 0 ELSE EffectiveK(strategy.startK, opts.storeKwargs)

Seeds == IF Len(calls) = 0 THEN <<>> ELSE calls[1].result

SeedScore(id) ==
  IF strategy.scorer = "similarity" THEN SimilarityTo(id) ELSE Frac(0, 1)

\* How many seeds Scored selects when no further round follows.
ScoredCount ==
  IF strategy.maxDepth = <<0>> THEN Min2(strategy.selectK, Len(Seeds))
  ELSE Min2(IF strategy.perIterationLimit # <<>>
            THEN Min2(strategy.selectK, strategy.perIterationLimit[1])
            ELSE strategy.selectK,
            Len(Seeds))

Scenario2 ==
  /\ embeddingFn = "length"
  /\ store = ScenarioDocuments
  /\ strategy.kind = "Eager"
  /\ strategy.selectK = 4
  /\ strategy.startK = 1
  /\ strategy.maxDepth = <<>>
  /\ opts.query = "London"
  /\ opts.edges = << <<"category", "category">> >>
  /\ opts.metadataFilter = NoFilter
  /\ opts.initialRootIds = <<>>

\* C11 as stated: scenario 2 picks d4 as the only seed, reaches d1 over
\* category = geo and returns the ids [d4, d1].
C11_Scenario2LondonFirst ==
  (Scenario2 /\ pc \in {"done", "failed"}) =>
    /\ Returned
    /\ calls[1].result = <<"d4">>
    /\ Ids(output) = <<"d4", "d1">>

\* C11 (amended): under E every document has similarity 1 to every query,
\* so the stable ranking keeps insertion order: scenario 2 picks d1 as the
\* only seed, reaches d4 over category = geo and returns the ids [d1, d4].
C11_Scenario2InsertionOrder ==
  (Scenario2 /\ pc \in {"done", "failed"}) =>
    /\ Returned
    /\ calls[1].result = <<"d1">>
    /\ \A id \in {"d1", "d2", "d3", "d4"} : FracEq(SimilarityTo(id), Frac(1, 1))
    /\ Len(calls) >= 2
    /\ calls[2].op = "adjacent"
    /\ Ids(output) = <<"d1", "d4">>

C11_Witness ==
  /\ Scenario2
  /\ Returned
  /\ Len(output) = 2
  /\ \E i \in AdjacentCalls : calls[i].settled

\* ---------------------------------------------------------------- C12
StoreIds == {store[i].id : i \in 1..Len(store)}

\* The first occurrence of every element of s, in order.
FirstOccurrences(s) ==
  SelectSeq([i \in 1..Len(s) |-> i], LAMBDA i : \A j \in 1..(i - 1) : s[j] # s[i])

\* C12: get(ids, {filter}) returns at most one content per id, also when
\* ids repeats an id, in the order of ids, without the ids absent from the
\* store and without the contents failing the filter.
C12_GetOnePerId ==
  \A c \in 1..Len(calls) :
    calls[c].op = "get" =>
      LET ids == calls[c].ids
          firsts == FirstOccurrences(ids)
          wanted == SelectSeq([i \in 1..Len(firsts) |-> ids[firsts[i]]],
                              LAMBDA id : id \in StoreIds
                                          /\ matches(calls[c].filter, ContentById(store, id)))
      IN /\ Distinct(calls[c].result)
         /\ calls[c].result = wanted

\* ---------------------------------------------------------------- C13
\* The value a (possibly dotted) key names in a metadata mapping, looked up
\* level by level: <<>> when some level is missing.
Child(value, keyPart) ==
  IF IsObject(value)
  THEN IF keyPart \in DOMAIN value.obj THEN <<value.obj[keyPart]>> ELSE <<>>
  ELSE IF value.arr /\ keyPart \in DOMAIN ArrayIndex /\ ArrayIndex[keyPart] <= Len(value.vals)
       THEN <<Scalar(value.vals[ArrayIndex[keyPart]])>>
       ELSE <<>>

ValueAt(metadata, key) ==
  LET parts == split(key)
      top == IF parts[1] \in DOMAIN metadata THEN <<metadata[parts[1]]>> ELSE <<>>
  IN IF Len(parts) = 1 \/ top = <<>> THEN top ELSE Child(top[1], parts[2])

\* The match C13 describes: every key of F names a value that equals F[key]
\* or is an array containing F[key].
SatisfiesFilter(F, content) ==
  \A key \in DOMAIN F :
    LET at == ValueAt(content.metadata, key)
    IN /\ at # <<>>
       /\ ~IsObject(at[1])
       /\ IF at[1].arr THEN F[key] \in Range(at[1].vals) ELSE at[1].vals = <<F[key]>>

\* C13: get returns a requested content, and search with k covering the
\* store returns a content, iff the content satisfies the filter; search
\* with any k returns only contents that satisfy it.
C13_FilterMatch ==
  \A c \in 1..Len(calls) :
    \A i \in 1..Len(store) :
      LET returned == store[i].id \in Range(calls[c].result)
          asked == \/ (calls[c].op = "get" /\ store[i].id \in Range(calls[c].ids))
                   \/ (calls[c].op = "search" /\ calls[c].k >= Len(store))
      IN /\ (calls[c].op \in {"get", "search"} /\ returned)
              => SatisfiesFilter(calls[c].filter, store[i])
         /\ asked => (returned <=> SatisfiesFilter(calls[c].filter, store[i]))

C13_Witness ==
  /\ Len(calls) = 1
  /\ calls[1].op = "search"
  /\ calls[1].k >= Len(store)
  /\ calls[1].filter = ("address.city" :> "Paris") @@ [country |-> "FR"]
  /\ Range(calls[1].result) = {"a1", "a2"}

\* ---------------------------------------------------------------- C14
\* The ids a seed call of the given kind returned (none if it was not made).
SeedResult(op) ==
  LET made == {i \in 1..Len(calls) : calls[i].op = op}
  IN IF made = {} THEN <<>> ELSE calls[CHOOSE i \in made : TRUE].result

IdsThenHits ==
  LET both == SeedResult("get") \o SeedResult("searchWithEmbedding")
      firsts == FirstOccurrences(both)
  IN [i \in 1..Len(firsts) |-> both[firsts[i]]]

\* C14: whichever seed call settles first, the first strategy.iteration is
\* handed the id-get results before the similarity hits, each in the order
\* its call returned (an id both calls returned appears once, at its first
\* place).
C14_IdsBeforeHits == Len(handed) >= 1 => handed[1] = IdsThenHits

C14_Witness ==
  /\ Len(handed) >= 1
  /\ Len(calls) >= 2
  /\ calls[1].op = "get"
  /\ calls[2].op = "searchWithEmbedding"
  /\ calls[2].order = 1
  /\ calls[1].order = 2
  /\ calls[1].result # <<>>
  /\ Len(handed[1]) > Len(calls[1].result)

\* ---------------------------------------------------------------- C15
\* C15: over any sequence of select / traverse / selectAndTraverse calls
\* (and clears of toTraverse) an id is put into toTraverse at most once in
\* the tracker's lifetime, only at a depth below maxDepth when maxDepth is
\* set, and traverse returns the number of ids the call newly queued.
C15_QueuedOnce ==
  LET log == nodeTracker.queuedLog
      queued == [i \in 1..Len(log) |-> log[i].id]
  IN /\ Distinct(queued)
     /\ Range(Ids(nodeTracker.toTraverse)) \subseteq Range(queued)
     /\ \A i \in 1..Len(log) :
          nodeTracker.maxDepth = <<>> \/ log[i].depth < nodeTracker.maxDepth[1]
     /\ \A c \in 1..Len(calls) :
          calls[c].op \in {"traverse", "selectAndTraverse"} =>
            /\ calls[c].count = Len(log) - calls[c].logBefore
            /\ calls[c].count =
                 Cardinality(Range(Ids(nodeTracker.toTraverse)) \ calls[c].before)

\* A visited id is offered again after the frontier was cleared, and is
\* not queued.
C15_Witness ==
  /\ Len(calls) = 1
  /\ calls[1].op = "traverse"
  /\ calls[1].offered # {}
  /\ calls[1].before = {}
  /\ calls[1].count = 0
  /\ nodeTracker.maxDepth = <<>>
  /\ calls[1].offered \subseteq {nodeTracker.queuedLog[i].id : i \in 1..Len(nodeTracker.queuedLog)}

\* ---------------------------------------------------------------- C16
\* C16: the document nodeToDoc produces carries the node's metadata merged
\* with its extraMetadata, and for a key present in both the extraMetadata
\* value is the one kept.
C16_ExtraMetadataWins ==
  \A c \in 1..Len(calls) :
    calls[c].op = "nodeToDoc" =>
      LET node == calls[c].node
          doc == calls[c].result
      IN /\ DOMAIN doc.metadata = DOMAIN node.metadata \cup DOMAIN node.extraMetadata
         /\ \A key \in DOMAIN node.extraMetadata :
              doc.metadata[key] = node.extraMetadata[key]
         /\ \A key \in DOMAIN node.metadata \ DOMAIN node.extraMetadata :
              doc.metadata[key] = node.metadata[key]

\* ---------------------------------------------------------------- C17
\* C17: topK applied to its own result with the same embedding and k
\* returns the same contents in the same order.
C17_TopKIdempotent ==
  (Len(calls) = 2 /\ calls[2].op = "topK") => calls[2].result = calls[1].result

\* The first call had a repeated id and a tie to deal with and cut its
\* input down.
C17_Witness ==
  /\ Len(calls) = 2
  /\ calls[2].op = "topK"
  /\ ~Distinct(Ids(calls[1].contents))
  /\ Len(calls[1].result) = 2
  /\ calls[1].k = 2
  /\ cosine(calls[1].embedding, calls[1].result[1].embedding)
       = cosine(calls[1].embedding, calls[1].result[2].embedding)
  /\ calls[1].result[1].id # calls[1].result[2].id

\* ---------------------------------------------------------------- C18
FailedCalls == {i \in 1..Len(calls) : calls[i].failed}

FirstFailed ==
  CHOOSE i \in FailedCalls : \A j \in FailedCalls : calls[i].order <= calls[j].order

\* C18: once an adapter call (get, searchWithEmbedding or adjacent) has
\* failed, traverse has failed with that call's error (the first one's if
\* both seed calls fail), has returned no nodes, and the engine issues no
\* further call: no call is made twice and none follows a failed one.
C18_FailFast ==
  /\ [](FailedCalls # {} =>
         /\ pc = "failed"
         /\ output = <<>>
         /\ error = calls[FirstFailed].error
         /\ error = AdapterErrors[calls[FirstFailed].op]
         /\ Cardinality({i \in 1..Len(calls) : calls[i].op = "get"}) <= 1
         /\ Cardinality({i \in 1..Len(calls) : calls[i].op = "searchWithEmbedding"}) <= 1
         /\ \A i \in FailedCalls : \A j \in (i + 1)..Len(calls) : calls[j].op # "adjacent")
  /\ [][FailedCalls # {} => Len(calls') = Len(calls)]_vars

\* An adjacent call fails after seeds were selected; and a seed call fails
\* while the other is still pending.
C18_Witness ==
  /\ pc = "failed"
  /\ Len(nodeTracker.selected) > 0
  /\ calls[Len(calls)].op = "adjacent"
  /\ calls[Len(calls)].failed

\* ---------------------------------------------------------------- C19
\* C19: Strategy.build treats the option k as an alias for selectK: the
\* built strategy has selectK = k, or the option selectK when both are
\* given, and a traversal run with it returns at most that many nodes.
C19_KAliasesSelectK ==
  (pc # "unbuilt" /\ opts.strategyKwargs.k # <<>>) =>
    LET n == IF opts.strategyKwargs.selectK # <<>>
             THEN opts.strategyKwargs.selectK[1] ELSE opts.strategyKwargs.k[1]
    IN /\ strategy.selectK = n
       /\ nodeTracker.selectK = n
       /\ Returned => Len(output) <= n

\* k alone cuts the output below what the traversal selected.
C19_Witness ==
  /\ Returned
  /\ opts.strategyKwargs.k = <<1>>
  /\ opts.strategyKwargs.selectK = <<>>
  /\ Len(output) = 1
  /\ Len(nodeTracker.selected) >= 2

\* ---------------------------------------------------------------- C20
\* How many times x occurs in the sequence s.
Occurrences(s, x) == Cardinality({i \in 1..Len(s) : s[i] = x})

\* C20: when the inputs all complete without error, a completed amerge has
\* yielded every item of every input exactly once (the multiset union of
\* the inputs), whatever the interleaving of the producers; and it is not
\* left waiting once every producer has finished and the queue is empty.
C20_MergeYieldsAll ==
  /\ merge.pc = "completed" =>
       \A x \in MergeItems :
         Occurrences(merge.yielded, x)
           = Occurrences(Flatten(merge.asyncIterables), x)
  /\ (/\ merge.pc = "loop"
      /\ \A i \in 1..Len(merge.pumps) : merge.pumps[i] = "done")
       => Len(merge.queue) > 0

\* ---------------------------------------------------------------- C21
\* The nodes handed to the strategy for the seeds: the first iteration call.
SeedIds == IF Len(handed) = 0 THEN {} ELSE Range(handed[1])

\* The recorded depths of the expanded edges that are structurally equal to
\* an incoming edge of the node.
ReachingDepths(n) ==
  {edgeDepths[e] : e \in {x \in DOMAIN edgeDepths :
                            \E i \in 1..Len(n.incomingEdges) : EdgeEquals(x, n.incomingEdges[i])}}

\* C21: a seed has depth 0; a node first discovered in an expansion round
\* has depth >= 1, namely the least recorded depth of the expanded edges
\* that reached it (1 + the least depth of the frontier nodes owning them).
C21_DepthFromFrontier ==
  \A n \in ProducedNodes :
    IF n.id \in SeedIds THEN n.depth = 0
    ELSE /\ n.depth >= 1
         /\ ReachingDepths(n) # {} =>
              /\ n.depth \in ReachingDepths(n)
              /\ \A d \in ReachingDepths(n) : n.depth <= d

\* ---------------------------------------------------------------- C22
\* Every edge handed to store.adjacent, with the call and the position it
\* was handed in.
ExpandedEdges ==
  UNION {{[call |-> i, pos |-> j, edge |-> calls[i].edges[j]] : j \in 1..Len(calls[i].edges)} :
           i \in AdjacentCalls}

\* C22: within one traversal no two edges handed to store.adjacent, in the
\* same call or in different rounds, are structurally equal.
C22_EdgeExpandedOnce ==
  \A x, y \in ExpandedEdges :
    EdgeEquals(x.edge, y.edge) => (x.call = y.call /\ x.pos = y.pos)

\* ---------------------------------------------------------------- C23
\* The nodes one strategy.iteration call added to tracker.selected.
NewlySelected ==
  SubSeq(nodeTracker'.selected, Len(nodeTracker.selected) + 1, Len(nodeTracker'.selected))

\* min(tracker.numRemaining, perIterationLimit) before the call.
SelectionBudget ==
  IF strategy.perIterationLimit = <<>> THEN numRemaining(nodeTracker)
  ELSE Min2(numRemaining(nodeTracker), strategy.perIterationLimit[1])

\* What one Scored.iteration call is required to do.
ScoredIterationBounded ==
  /\ Len(NewlySelected) <= SelectionBudget
  /\ \A i \in 1..Len(NewlySelected) :
       /\ NewlySelected[i].extraMetadata._score
            = <<scorer(strategy.scorer, NewlySelected[i])>>
       /\ \A j \in (i + 1)..Len(NewlySelected) :
            ~FracLess(NewlySelected[i].extraMetadata._score[1],
                      NewlySelected[j].extraMetadata._score[1])
       /\ \A q \in 1..Len(strategy'.nodes) :
            ~FracLess(NewlySelected[i].extraMetadata._score[1], strategy'.nodes[q].score)

\* C23: one Scored.iteration call selects at most min(numRemaining,
\* perIterationLimit) nodes, whatever maxDepth is, and they are the
\* highest-scoring nodes of the queue, in non-increasing score order, each
\* stamped with extraMetadata._score = scorer(node).
C23_ScoredIterationLimit ==
  [][(strategy.kind = "Scored" /\ Len(handed') = Len(handed) + 1)
       => ScoredIterationBounded]_vars

\* ---------------------------------------------------------------- C24
\* Scenario 3: Scored with scorer n -> -n.depth, edges [(country, country)],
\* selectK = 2, startK = 1, query "Paris", everything else at its default.
Scenario3 ==
  /\ embeddingFn = "length"
  /\ store = ScenarioDocuments
  /\ strategy.kind = "Scored"
  /\ strategy.scorer = "negDepth"
  /\ strategy.selectK = 2
  /\ strategy.startK = 1
  /\ strategy.maxDepth = <<>>
  /\ opts.query = "Paris"
  /\ opts.edges = << <<"country", "country">> >>
  /\ opts.metadataFilter = NoFilter
  /\ opts.initialRootIds = <<>>

\* The nodes whose outgoing edges call i was handed.
ExpandedOwners(i) == {calls[i].edges[j].owner : j \in 1..Len(calls[i].edges)}

\* C24: an adjacent call is issued only while numRemaining > 0 and with a
\* non-empty drained frontier, so never once selectK nodes are selected; in
\* scenario 3 only the seed is expanded, the FR neighbour selected second
\* is not.
C24_NoAdjacentAtSelectK ==
  /\ pc = "awaitAdjacent" =>
       /\ numRemaining(nodeTracker) > 0
       /\ Len(nodeTracker.selected) < strategy.selectK
       /\ nodeTracker.toTraverse = <<>>
       /\ calls[Len(calls)].edges # <<>>
       /\ ExpandedOwners(Len(calls)) \subseteq nodeTracker.visitedNodeIds
  /\ \A i \in AdjacentCalls : i < Len(calls) => calls[i].settled
  /\ Scenario3 =>
       /\ Cardinality(AdjacentCalls) <= 1
       /\ \A i \in AdjacentCalls : ExpandedOwners(i) = {"d1"}
       /\ Returned => Len(output) = 2 /\ output[1].id = "d1"

C24_Witness ==
  /\ Scenario3
  /\ Returned
  /\ Cardinality(AdjacentCalls) = 1
  /\ Len(nodeTracker.selected) >= strategy.selectK
  /\ Len(nodeTracker.toTraverse) > 0

\* ---------------------------------------------------------------- C25
\* C25: when every adapter call returns, traverse() eventually returns, and
\* no node id is queued for expansion twice or expanded in two rounds.
ExpandedInOneRound ==
  /\ \A i, j \in 1..Len(nodeTracker.queuedLog) :
       i # j => nodeTracker.queuedLog[i].id # nodeTracker.queuedLog[j].id
  /\ \A i, j \in AdjacentCalls :
       i # j => ExpandedOwners(i) \cap ExpandedOwners(j) = {}

C25_Terminates == <>Returned /\ [][ExpandedInOneRound']_vars

\* ---------------------------------------------------------------- C26
\* The distinct edges, by payload, handed to store.adjacent so far.
DistinctExpanded ==
  {[type |-> x.edge.type, field |-> x.edge.field, value |-> x.edge.value] : x \in ExpandedEdges}

\* C26: with strategy.maxTraverse = M, over all rounds of one traversal no
\* more than M distinct edges are handed to store.adjacent.
C26_MaxTraverse ==
  strategy.maxTraverse # <<>> => Cardinality(DistinctExpanded) <= strategy.maxTraverse[1]

\* ---------------------------------------------------------------- C27
\* The values a selector resolves to against a content: the id for "$id",
\* else the scalar or the array elements found in the metadata.
Resolved(selector, content) ==
  IF selector = ID_MAGIC_STRING THEN {content.id}
  ELSE LET got == nestedGet(content.metadata, selector)
       IN IF got = <<>> THEN {} ELSE Range(got[1].vals)

\* The edge a selector names for a value: Id for "$id", else Metadata.
Named(selector, v) ==
  IF selector = ID_MAGIC_STRING THEN [type |-> "id", field |-> "", value |-> v]
  ELSE [type |-> "metadata", field |-> selector, value |-> v]

Payloads(edges) ==
  {[type |-> edges[i].type, field |-> edges[i].field, value |-> edges[i].value] :
     i \in 1..Len(edges)}

\* C27 as stated: the incoming edges of a content take their values from
\* the target selector and are named by the source selector.
C27_IncomingNamedBySource ==
  \A i \in 1..Len(calls) :
    Payloads(calls[i].result.incoming)
      = UNION {{Named(calls[i].specs[j][1], v) : v \in Resolved(calls[i].specs[j][2], calls[i].content)} :
                 j \in 1..Len(calls[i].specs)}

\* C27 (amended): the incoming edges of a content take their values from
\* the target selector and are named by the target selector as well, like
\* the outgoing edges: Metadata{field: t, value}, or Id when t is "$id".
C27_IncomingNamedByTarget ==
  \A i \in 1..Len(calls) :
    Payloads(calls[i].result.incoming)
      = UNION {{Named(calls[i].specs[j][2], v) : v \in Resolved(calls[i].specs[j][2], calls[i].content)} :
                 j \in 1..Len(calls[i].specs)}

C27_Witness ==
  /\ Len(calls) = 1
  /\ calls[1].specs = << <<"$id", "mentions">>, <<"origin", "country">> >>
  /\ calls[1].content.id = "e2"
  /\ Payloads(calls[1].result.incoming)
       = {Named("mentions", "e1"), Named("country", "FR"), Named("country", "UK")}

\* ---------------------------------------------------------------- C28
\* C28: neither the incoming nor the outgoing set of a content holds two
\* structurally equal edges.
C28_NoEqualEdges ==
  \A i \in 1..Len(calls) :
    \A edges \in {calls[i].result.incoming, calls[i].result.outgoing} :
      \A j, k \in 1..Len(edges) : j # k => ~EdgeEquals(edges[j], edges[k])

\* ---------------------------------------------------------------- C29
\* Some outgoing edge of u is structurally equal to some incoming edge of v.
Linked(u, v, specs) ==
  LET out == edgeFunction(specs, u, 1).outgoing
      in == edgeFunction(specs, v, 2).incoming
  IN \E i \in 1..Len(out), j \in 1..Len(in) : EdgeEquals(out[i], in[j])

\* C29: for documents with pairwise distinct ids the graph has one vertex
\* per document and an arc u -> v exactly when u # v and some outgoing edge
\* of u structurally equals some incoming edge of v; no arc occurs twice
\* and none is a self-loop.
C29_GraphArcs ==
  \A c \in 1..Len(calls) :
    LET documents == calls[c].documents
        graph == calls[c].result
    IN Distinct(Ids(documents)) =>
         /\ graph.nodes = Ids(documents)
         /\ \A u, v \in Range(documents) :
              (\E a \in 1..Len(graph.edges) :
                 graph.edges[a] = [source |-> u.id, target |-> v.id])
              <=> (u.id # v.id /\ Linked(u, v, calls[c].specs))
         /\ \A a \in 1..Len(graph.edges) :
              /\ graph.edges[a].source # graph.edges[a].target
              /\ graph.edges[a].source \in Range(graph.nodes)
              /\ graph.edges[a].target \in Range(graph.nodes)
         /\ Distinct(graph.edges)

C29_Witness ==
  /\ Len(calls) = 1
  /\ Ids(calls[1].documents) = <<"e1", "e2", "e4">>
  /\ calls[1].specs = << <<"mentions", "$id">>, <<"origin", "country">> >>
  /\ Range(calls[1].result.edges)
       = {[source |-> "e1", target |-> "e2"], [source |-> "e2", target |-> "e1"],
          [source |-> "e4", target |-> "e2"]}
  /\ Len(calls[1].result.edges) = 3

\* ---------------------------------------------------------------- C30
\* C30: whenever some row of X and some row of Y differ in length,
\* cosineSimilarity fails instead of returning a matrix.
C30_DimensionMismatchFails ==
  \A c \in 1..Len(calls) :
    (\E i \in 1..Len(calls[c].X), j \in 1..Len(calls[c].Y) :
       Len(calls[c].X[i]) # Len(calls[c].Y[j]))
    => ~calls[c].result.ok

====
